---------------------------- MODULE Spec2Model ----------------------------
(* Model of craftsbot (src/craftsbot/craftsbot.py): the dependency graph   *)
(* walk, the tag-template resolver, the manifest rewrite and file swap of  *)
(* _build, and the update command that drives them.                        *)
(*                                                                         *)
(* Text is a sequence of tokens (a token is one character or one opaque    *)
(* word such as an alias name).  Python's None and True are the two        *)
(* distinguished texts None and True, so that every value stored in a      *)
(* mapping is a text and mappings are functions from texts to texts.       *)
EXTENDS Integers, Sequences, FiniteSets, TLC

VARIABLES
    store,           \* the document in the file at Craftsbot._data_path
    args,            \* update_cmd: the parsed arguments, alias and tag
    pc,              \* update_cmd: the statement control is at
    exc,             \* the exception that ended update_cmd, or None
    data,            \* Craftsbot._data["images"]: alias -> definition
    image_to_alias,  \* Craftsbot._image_to_alias
    affected,        \* update_cmd: the list get_affected_images returned
    idx,             \* update_cmd: position of the for loop in affected
    proc_alias,      \* process: the parameter alias
    proc_tag,        \* process: the local tag
    fs,              \* the files of every workdir
    dockerfile,      \* _build: the local dockerfile
    new_dockerfile,  \* _build: the local new_dockerfile
    return_code,     \* _build, _execute_hook: the local return_code
    log,             \* what the run did, in order: load, build, hook, assign, save
    before,          \* data and log length when process was entered, fs when _build was
    cache,           \* _get_tmpl_tag: the per-call memo
    stack,           \* _get_tmpl_tag: the active get_tmpl_tag_rec/re.sub frames
    call,            \* _get_tmpl_tag: alias get_tmpl_tag_rec is being entered with
    ret,             \* _get_tmpl_tag: the value returned by the outermost call
    tpc,             \* _get_tmpl_tag: "idle", "running", "returned" or "raised"
    expanded,        \* _get_tmpl_tag: how often each alias reached line 203
    target,          \* the alias _get_tmpl_tag was called with
    child,           \* run: the process p, its writes to come, exit status and returncode
    pipe,            \* run: what the child wrote to p.stdout and p.stderr, not yet read
    rpc,             \* run: the statement control is at
    ready,           \* run: the files the for loop under way has still to visit
    lines,           \* run: the local lines
    line_parts,      \* run: the line_parts of each file, joined
    run_result,      \* run: the pair returned, or None
    written,         \* all the child wrote to each file so far
    completed,       \* the lines the child completed, in the order it completed them
    files,           \* FileOperation.apply: the File objects of the argument files
    dst,             \* FileOperation: the directories and files under self._dst
    fidx,            \* FileOperation.apply: the position of the for loop in files
    correct,         \* FileOperation.apply: the local correct, as positions in files
    incorrect,       \* FileOperation.apply: the local incorrect, as positions in files
    fpc,             \* FileOperation.apply: "idle", "loop", "returned" or "raised"
    failure          \* how _apply ended for each file it was called with

cmdVars == <<store, args, pc, exc, affected, idx, log, before>>

processVars == <<proc_alias, proc_tag>>

buildVars == <<fs, dockerfile, new_dockerfile, return_code>>

tagVars == <<cache, stack, call, ret, tpc, expanded, target>>

runVars == <<child, pipe, rpc, ready, lines, line_parts, run_result, written, completed>>

fileVars == <<files, dst, fidx, correct, incorrect, fpc, failure>>

vars == <<cmdVars, data, image_to_alias, processVars, buildVars, tagVars, runVars, fileVars>>

\* everything _get_tmpl_tag neither reads nor writes
outside == <<cmdVars, image_to_alias, processVars, buildVars, runVars, fileVars>>

---------------------------------------------------------------------------
(* Values and mappings *)

None == <<"None">>
True == <<"True">>
CIRCULAR_DEPENDENCY == <<"CIRCULAR_DEPENDENCY">>

EmptyDict == <<>>

DictGet(d, k) == IF k \in DOMAIN d THEN d[k] ELSE None

DictGetOr(d, k, default) == IF k \in DOMAIN d THEN d[k] ELSE default

DictSet(d, k, v) == [x \in (DOMAIN d) \cup {k} |-> IF x = k THEN v ELSE d[x]]

DictDel(d, k) == [x \in (DOMAIN d) \ {k} |-> d[x]]

Tail2(s, n) == SubSeq(s, n, Len(s))

---------------------------------------------------------------------------
(* Bounds and the definitions the resolver is run on *)

MaxRefs == 2
MaxDeps == 1

base == <<"base">>
app == <<"app">>
web == <<"web">>
api == <<"api">>
ghost == <<"ghost">>

Aliases == {base, app, web}

AllAliases == Aliases \cup {api}

Refs == Aliases \cup {ghost}

LiteralTag == [x \in AllAliases |->
                 IF x = base THEN <<"1">>
                 ELSE IF x = app THEN <<"2">>
                 ELSE IF x = web THEN <<"3">> ELSE <<"4">>]

PinTag == <<"9">>

Placeholder(ref) == <<"{image.">> \o ref \o <<"}">>

RECURSIVE Joined(_)
Joined(refs) ==
    IF Len(refs) = 0 THEN <<>>
    ELSE IF Len(refs) = 1 THEN Placeholder(refs[1])
    ELSE Placeholder(refs[1]) \o <<"-">> \o Joined(Tail(refs))

RefSeqs(n) == UNION {[1..k -> Aliases] : k \in 1..n}

Malformed == {<<"{image.", "}">>, <<"{image.", "base">>, <<"v", "}">>,
              <<"{image.", "\n", "base", "}">>}

RichTmpls == {None} \cup {Joined(r) : r \in RefSeqs(MaxRefs)}
                    \cup {<<"v">> \o Placeholder(r) : r \in Aliases}
                    \cup Malformed

PlainTmpls == {None} \cup {Placeholder(r) : r \in Refs}
                     \cup {<<"v">> \o Placeholder(base)}

LeafTmpls == {None, Placeholder(app)}

DepsOn(keys) ==
    UNION {[D -> {True, PinTag}] : D \in {S \in SUBSET keys : Cardinality(S) <= MaxDeps}}

Definition(alias, tmpl, deps) ==
    [tag |-> LiteralTag[alias], tag_tmpl |-> tmpl, depends_on |-> deps]

\* base and app with a definition for web, and without one
TagConfigs ==
    {[x \in D |-> IF x = base THEN b ELSE IF x = app THEN a ELSE w] :
        b \in {Definition(base, t, d) : t \in RichTmpls, d \in DepsOn(Aliases)},
        a \in {Definition(app, t, d) : t \in PlainTmpls, d \in DepsOn({base})},
        w \in {Definition(web, t, EmptyDict) : t \in LeafTmpls},
        D \in {Aliases, {base, app}}}

---------------------------------------------------------------------------
(* Craftsbot._get_info and the placeholder pattern *)

HasInfo(alias) == alias \in DOMAIN data

_get_info(alias) == data[alias]

(* _IMAGE_RE = {image\.(.*?)} : the leftmost "{image." that is followed, *)
(* with no newline in between, by a "}"; the reference is the shortest   *)
(* text up to that "}".                                                  *)
ClosingOfGreedy(s, i) ==
    IF \E j \in (i + 1)..Len(s) : s[j] = "}"
    THEN CHOOSE j \in (i + 1)..Len(s) :
            s[j] = "}" /\ \A k \in (j + 1)..Len(s) : s[k] # "}"
    ELSE 0

ClosingOf(s, i) ==
    IF \E j \in (i + 1)..Len(s) : s[j] = "}"
    THEN CHOOSE j \in (i + 1)..Len(s) :
            s[j] = "}" /\ \A k \in (i + 1)..(j - 1) : s[k] # "}"
    ELSE 0

MatchesAt(s, i) ==
    /\ s[i] = "{image."
    /\ ClosingOf(s, i) # 0
    /\ \A k \in (i + 1)..(ClosingOf(s, i) - 1) : s[k] # "\n"

HasMatch(s) == \E i \in 1..Len(s) : MatchesAt(s, i)

_IMAGE_RE_search(s) ==
    LET i == CHOOSE m \in 1..Len(s) :
                 MatchesAt(s, m) /\ \A k \in 1..(m - 1) : ~MatchesAt(s, k)
        j == ClosingOf(s, i)
    IN  [start |-> i, end |-> j, group1 |-> SubSeq(s, i + 1, j - 1)]


---------------------------------------------------------------------------
(* Craftsbot._get_tmpl_tag: get_tmpl_tag_rec and the callback subs of    *)
(* _IMAGE_RE.sub, one frame per template being substituted.  A frame     *)
(* holds the alias and its definition (info), the text of the template   *)
(* still to be scanned (rest) and the text produced so far (out).        *)

Frame(alias) ==
    [alias |-> alias, info |-> _get_info(alias),
     rest |-> _get_info(alias).tag_tmpl, out |-> <<>>]

Top == stack[Len(stack)]

Caller == SubSeq(stack, 1, Len(stack) - 1)

WithTop(s, f) == [s EXCEPT ![Len(s)] = f]

(* A call of get_tmpl_tag_rec returns tag to the frame frames ends with, *)
(* whose subs callback hands it to re.sub, or to _get_tmpl_tag itself.   *)
Return(frames, tag) ==
    /\ call' = None
    /\ IF frames = <<>>
       THEN /\ stack' = <<>>
            /\ ret' = tag
            /\ tpc' = "returned"
       ELSE /\ stack' = WithTop(frames, [frames[Len(frames)] EXCEPT !.out = @ \o tag])
            /\ UNCHANGED <<ret, tpc>>

(* cache[alias] = tag, lines 195 and 202 *)
CacheStore(c, alias, tag) == DictSet(c, alias, tag)

CacheResultForgets(c, alias, tag) == DictDel(c, alias)

CacheResultSkipped(c, alias, tag) == c

(* cache[alias] = tag = self._IMAGE_RE.sub(subs, tmpl), line 203 *)
CacheResult(c, alias, tag) == DictSet(c, alias, tag)

RecCachedStored ==
    /\ tpc = "running" /\ call # None
    /\ DictGet(cache, call) # None
    /\ Return(stack, IF HasInfo(call) THEN _get_info(call).tag ELSE None)
    /\ UNCHANGED <<data, cache, expanded, target>>
    /\ UNCHANGED outside

(* line 190-191: the memo already holds a tag for the alias *)
RecCached ==
    /\ tpc = "running" /\ call # None
    /\ DictGet(cache, call) # None
    /\ Return(stack, DictGet(cache, call))
    /\ UNCHANGED <<data, cache, expanded, target>>
    /\ UNCHANGED outside

(* line 192 (_get_info, line 96): no definition for the alias *)
RecAssert ==
    /\ tpc = "running" /\ call # None
    /\ DictGet(cache, call) = None
    /\ ~HasInfo(call)
    /\ tpc' = "raised"
    /\ call' = None
    /\ stack' = <<>>
    /\ UNCHANGED <<data, cache, ret, expanded, target>>
    /\ UNCHANGED outside

(* line 193-195: no tag_tmpl, the tag is the stored tag *)
RecLiteral ==
    /\ tpc = "running" /\ call # None
    /\ DictGet(cache, call) = None
    /\ HasInfo(call)
    /\ _get_info(call).tag_tmpl = None
    /\ cache' = CacheStore(cache, call, _get_info(call).tag)
    /\ Return(stack, _get_info(call).tag)
    /\ UNCHANGED <<data, expanded, target>>
    /\ UNCHANGED outside

(* line 202 and the entry of _IMAGE_RE.sub at line 203 *)
RecExpand ==
    /\ tpc = "running" /\ call # None
    /\ DictGet(cache, call) = None
    /\ HasInfo(call)
    /\ _get_info(call).tag_tmpl # None
    /\ cache' = CacheStore(cache, call, CIRCULAR_DEPENDENCY)
    /\ stack' = Append(stack, Frame(call))
    /\ expanded' = DictSet(expanded, call, DictGetOr(expanded, call, 0) + 1)
    /\ call' = None
    /\ UNCHANGED <<data, ret, tpc, target>>
    /\ UNCHANGED outside

\* subs resolving the alias of a placeholder although the definition pins it
SubsPinnedResolves ==
    /\ tpc = "running" /\ call = None /\ stack # <<>>
    /\ HasMatch(Top.rest)
    /\ LET m == _IMAGE_RE_search(Top.rest)
           tag == DictGet(DictGetOr(Top.info, "depends_on", EmptyDict), m.group1)
       IN  /\ tag \notin {None, True}
           /\ stack' = WithTop(stack,
                  [Top EXCEPT !.out = @ \o SubSeq(Top.rest, 1, m.start - 1),
                              !.rest = Tail2(@, m.end + 1)])
           /\ call' = m.group1
    /\ UNCHANGED <<data, cache, ret, tpc, expanded, target>>
    /\ UNCHANGED outside

(* subs, lines 198-200, for a placeholder the definition pins *)
SubsPinned ==
    /\ tpc = "running" /\ call = None /\ stack # <<>>
    /\ HasMatch(Top.rest)
    /\ LET m == _IMAGE_RE_search(Top.rest)
           tag == DictGet(DictGetOr(Top.info, "depends_on", EmptyDict), m.group1)
       IN  /\ tag \notin {None, True}
           /\ stack' = WithTop(stack,
                  [Top EXCEPT !.out = @ \o SubSeq(Top.rest, 1, m.start - 1) \o tag,
                              !.rest = Tail2(@, m.end + 1)])
    /\ UNCHANGED <<data, cache, call, ret, tpc, expanded, target>>
    /\ UNCHANGED outside

(* subs, lines 198-200, for a placeholder resolved by recursion *)
SubsRecurse ==
    /\ tpc = "running" /\ call = None /\ stack # <<>>
    /\ HasMatch(Top.rest)
    /\ LET m == _IMAGE_RE_search(Top.rest)
           tag == DictGet(DictGetOr(Top.info, "depends_on", EmptyDict), m.group1)
       IN  /\ tag \in {None, True}
           /\ stack' = WithTop(stack,
                  [Top EXCEPT !.out = @ \o SubSeq(Top.rest, 1, m.start - 1),
                              !.rest = Tail2(@, m.end + 1)])
           /\ call' = m.group1
    /\ UNCHANGED <<data, cache, ret, tpc, expanded, target>>
    /\ UNCHANGED outside

(* line 203: _IMAGE_RE.sub has no further match and returns *)
RecExpanded ==
    /\ tpc = "running" /\ call = None /\ stack # <<>>
    /\ ~HasMatch(Top.rest)
    /\ LET tag == Top.out \o Top.rest
       IN  /\ cache' = CacheResult(cache, Top.alias, tag)
           /\ Return(Caller, tag)
    /\ UNCHANGED <<data, expanded, target>>
    /\ UNCHANGED outside

_get_tmpl_tag ==
    \/ RecCached
    \/ RecAssert
    \/ RecLiteral
    \/ RecExpand
    \/ SubsPinned
    \/ SubsRecurse
    \/ RecExpanded

---------------------------------------------------------------------------
(* The resolver alone, on every definition set of TagConfigs *)

\* the variables update_cmd has not reached yet
Unset ==
    /\ affected = <<>> /\ idx = 0
    /\ proc_alias = None /\ proc_tag = None
    /\ dockerfile = None /\ new_dockerfile = None /\ return_code = None
    /\ exc = None /\ log = <<>>
    /\ before = [data |-> EmptyDict, fs |-> EmptyDict, log |-> 0]

TagIdle ==
    /\ cache = EmptyDict /\ stack = <<>> /\ call = None /\ ret = None
    /\ tpc = "idle" /\ expanded = EmptyDict /\ target = None

\* no call of FileOperation.apply under way
FileIdle ==
    /\ files = <<>> /\ dst = None /\ fidx = 0 /\ correct = <<>> /\ incorrect = <<>>
    /\ fpc = "idle" /\ failure = <<>>

\* no call of run under way
RunIdle ==
    /\ child = None /\ pipe = EmptyDict /\ rpc = "idle" /\ ready = <<>>
    /\ lines = <<>> /\ line_parts = EmptyDict /\ run_result = None
    /\ written = EmptyDict /\ completed = <<>>

InitTag ==
    /\ data \in TagConfigs
    /\ target \in {base, app}
    /\ call = target
    /\ cache = EmptyDict
    /\ stack = <<>>
    /\ ret = None
    /\ tpc = "running"
    /\ expanded = EmptyDict
    /\ store = data /\ args = [alias |-> target, tag |-> None]
    /\ pc = "process" /\ image_to_alias = EmptyDict /\ fs = EmptyDict
    /\ Unset
    /\ RunIdle
    /\ FileIdle

NextTag == _get_tmpl_tag

SpecTag == InitTag /\ [][NextTag]_vars

SpecTagFair == SpecTag /\ WF_vars(NextTag)

---------------------------------------------------------------------------
(* Craftsbot.get_affected_images *)

\* the order of _get_images().items(): the order of the tables in the document
ImagesOrder == <<base, app, web, api>>

Items == SelectSeq(ImagesOrder, LAMBDA x : x \in DOMAIN data)

\* every definition with a depends_on entry for k, whatever its value
DependentsOfAny(k) ==
    LET F[n \in 0..Len(Items)] ==
            IF n = 0 THEN <<>>
            ELSE IF DictGet(DictGetOr(data[Items[n]], "depends_on", EmptyDict), k) # None
                 THEN Append(F[n - 1], <<Items[n], True>>)
                 ELSE F[n - 1]
    IN  F[Len(Items)]

\* lines 100-104: dependencies[(k, True)], the (x, True) in document order
\* of the definitions x whose depends_on[k] is True
DependentsOf(k) ==
    LET F[n \in 0..Len(Items)] ==
            IF n = 0 THEN <<>>
            ELSE IF DictGet(DictGetOr(data[Items[n]], "depends_on", EmptyDict), k) = True
                 THEN Append(F[n - 1], <<Items[n], True>>)
                 ELSE F[n - 1]
    IN  F[Len(Items)]

dependencies ==
    LET keys == UNION {DOMAIN DictGetOr(data[x], "depends_on", EmptyDict) : x \in DOMAIN data}
    IN  [n \in {<<k, True>> : k \in {k \in keys : DependentsOf(k) # <<>>}} |->
            DependentsOf(n[1])]

\* lines 109-114, on the pair st of the closure's visited and result
RECURSIVE topological_sort(_, _), VisitEach(_, _, _)
topological_sort(st, alias_and_tag) ==
    LET entered == [st EXCEPT !.visited = @ \cup {alias_and_tag}]
        left == VisitEach(entered, DictGetOr(dependencies, alias_and_tag, <<>>), 1)
    IN  [left EXCEPT !.result = Append(@, alias_and_tag)]

\* the for loop left at the first dependent that is already visited
RECURSIVE VisitEachBreaks(_, _, _)
VisitEachBreaks(st, xs, n) ==
    IF n > Len(xs) \/ xs[n] \in st.visited THEN st
    ELSE VisitEachBreaks(topological_sort(st, xs[n]), xs, n + 1)

\* lines 111-113: the for loop over dependencies.get(alias_and_tag, [])
VisitEach(st, xs, n) ==
    IF n > Len(xs) THEN st
    ELSE VisitEach(IF xs[n] \notin st.visited THEN topological_sort(st, xs[n]) ELSE st,
                   xs, n + 1)

Unreversed(s) == s

\* list.reverse, line 117
Reversed(s) == [n \in 1..Len(s) |-> s[Len(s) + 1 - n]]

get_affected_images(alias, tag) ==
    Reversed(topological_sort([visited |-> {}, result |-> <<>>], <<alias, tag>>).result)

\* update_cmd, line 57: the list the for loop runs over
Affected ==
    /\ pc = "affected"
    /\ affected' = get_affected_images(args.alias, True)
    /\ idx' = 1
    /\ pc' = "loop"
    /\ UNCHANGED <<store, args, exc, log, before, data, image_to_alias, processVars,
                   buildVars, tagVars, runVars, fileVars>>

(* get_affected_images alone, on every graph of at most MaxEdges          *)
(* depends_on entries, each True or a literal, over four definitions      *)

MaxEdges == 4

Pairs == AllAliases \X AllAliases

GraphConfigs ==
    {[x \in AllAliases |->
        Definition(x, None, [k \in {k \in AllAliases : <<x, k>> \in DOMAIN e} |-> e[<<x, k>>]])] :
        e \in UNION {[E -> {True, PinTag}] :
                        E \in {S \in SUBSET Pairs : Cardinality(S) <= MaxEdges}}}

InitGraph ==
    /\ data \in GraphConfigs
    /\ args \in [alias : {base, web}, tag : {None}]
    /\ store = data
    /\ pc = "affected"
    /\ image_to_alias = EmptyDict /\ fs = EmptyDict
    /\ Unset
    /\ TagIdle
    /\ RunIdle
    /\ FileIdle

NextGraph == Affected

SpecGraph == InitGraph /\ [][NextGraph]_vars

---------------------------------------------------------------------------
(* Craftsbot._DF_FROM_RE = ^FROM\s+(.+?)(?::.+?)?(\s) with re.M, and its  *)
(* substitution by _format_from (lines 140-148, 157)                      *)

IsSpace(t) == t \in {" ", "\n", "\t"}

AtLineStart(s, i) == i = 1 \/ s[i - 1] = "\n"

NoNewline(s, from, to) == \A k \in from..to : s[k] # "\n"

(* One way the pattern can match at i: w tokens of white space, g tokens  *)
(* of group 1, then either ":" and t >= 1 tokens and a white space, or    *)
(* (t = 0) a white space at once.                                         *)
FromWays(s, i) ==
    IF ~(AtLineStart(s, i) /\ s[i] = "FROM") THEN {}
    ELSE LET rest == Len(s) - i
             spaces == {w \in 1..rest : \A k \in (i + 1)..(i + w) : IsSpace(s[k])}
         IN  {c \in [w : spaces, g : 1..rest, t : 0..rest] :
                LET p == i + c.w + 1
                    q == p + c.g
                    e == IF c.t = 0 THEN q ELSE q + c.t + 1
                IN  /\ e <= Len(s)
                    /\ NoNewline(s, p, q - 1)
                    /\ c.t > 0 => s[q] = ":" /\ NoNewline(s, q + 1, q + c.t)
                    /\ IsSpace(s[e])}

(* The order the matcher tries them in: \s+ is greedy, (.+?) is lazy, the *)
(* optional group is tried before its omission and its .+? is lazy.       *)
TriedBefore(c, d) ==
    \/ c.w > d.w
    \/ c.w = d.w /\ c.g < d.g
    \/ c.w = d.w /\ c.g = d.g /\ c.t > 0 /\ (d.t = 0 \/ c.t < d.t)

FromMatchesAt(s, i) == FromWays(s, i) # {}

FromMatch(s, i) ==
    LET ways == FromWays(s, i)
        c == CHOOSE c \in ways : \A d \in ways : d = c \/ TriedBefore(c, d)
        p == i + c.w + 1
        q == p + c.g
        e == IF c.t = 0 THEN q ELSE q + c.t + 1
    IN  [start |-> i, end |-> e, group0 |-> SubSeq(s, i, e),
         group1 |-> SubSeq(s, p, q - 1), group2 |-> s[e]]

\* the matches re.sub finds, left to right and not overlapping
RECURSIVE FromMatches(_, _)
FromMatches(s, i) ==
    IF i > Len(s) THEN <<>>
    ELSE IF FromMatchesAt(s, i)
         THEN LET m == FromMatch(s, i)
              IN  <<m>> \o FromMatches(s, m.end + 1)
         ELSE FromMatches(s, i + 1)

\* the template of the alias where it has one
_get_tag_or_tmpl(alias) ==
    IF DictGet(_get_info(alias), "tag_tmpl") # None
    THEN _get_info(alias).tag_tmpl
    ELSE _get_info(alias).tag

\* _get_tag, lines 183-184
_get_tag(alias) == _get_info(alias).tag

\* lines 142-143 of _format_from
FromAlias(m) == DictGetOr(image_to_alias, m.group1, m.group1)

FromTag(info, m) == DictGet(DictGetOr(info, "depends_on", EmptyDict), FromAlias(m))

\* _format_from reaches the assert of _get_info (line 96)
FormatFromRaises(info, m) == FromTag(info, m) = True /\ ~HasInfo(FromAlias(m))

\* the new tag appended to the whole match, the old tag kept
_format_from_appends(info, m) ==
    IF FromTag(info, m) = None THEN m.group0
    ELSE SubSeq(m.group0, 1, Len(m.group0) - 1) \o <<":">>
            \o (IF FromTag(info, m) = True THEN _get_tag(FromAlias(m)) ELSE FromTag(info, m))
            \o <<m.group2>>

\* group(1) returned for a reference that depends_on does not hold
_format_from_group1(info, m) ==
    IF FromTag(info, m) = None THEN m.group1
    ELSE <<"FROM", " ">> \o m.group1 \o <<":">>
            \o (IF FromTag(info, m) = True THEN _get_tag(FromAlias(m)) ELSE FromTag(info, m))
            \o <<m.group2>>

_format_from(info, m) ==
    IF FromTag(info, m) = None THEN m.group0
    ELSE <<"FROM", " ">> \o m.group1 \o <<":">>
            \o (IF FromTag(info, m) = True THEN _get_tag(FromAlias(m)) ELSE FromTag(info, m))
            \o <<m.group2>>

\* _DF_FROM_RE.sub(_format_from, s), from position i on
RECURSIVE _DF_FROM_RE_sub(_, _, _)
_DF_FROM_RE_sub(info, s, i) ==
    IF i > Len(s) THEN <<>>
    ELSE IF FromMatchesAt(s, i)
         THEN LET m == FromMatch(s, i)
              IN  _format_from(info, m) \o _DF_FROM_RE_sub(info, s, m.end + 1)
         ELSE <<s[i]>> \o _DF_FROM_RE_sub(info, s, i + 1)

RewriteRaises(info, s) ==
    LET found == FromMatches(s, 1)
    IN  \E n \in 1..Len(found) : FormatFromRaises(info, found[n])

---------------------------------------------------------------------------
(* update_cmd, Craftsbot.load, update, process, _build, _execute_hook     *)
(* and save.  pc names the statement control is at; an exception leaves   *)
(* update_cmd at once (nothing catches it): pc becomes "raised".          *)

RaiseAndGoOn(e) == exc' = e /\ pc' = "assign"

Raise(e) == exc' = e /\ pc' = "raised"

Logged(event) == log' = Append(log, event)

\* load, lines 76-79: the last definition listing an image name wins
ImageToAlias(images) ==
    LET order == SelectSeq(ImagesOrder, LAMBDA x : x \in DOMAIN images)
        names == UNION {{DictGetOr(images[x], "images", <<>>)[n] :
                            n \in 1..Len(DictGetOr(images[x], "images", <<>>))} :
                        x \in DOMAIN images}
        Lists(x, name) ==
            \E n \in 1..Len(DictGetOr(images[x], "images", <<>>)) :
                DictGetOr(images[x], "images", <<>>)[n] = name
        LastOf(name) ==
            order[CHOOSE n \in 1..Len(order) :
                     /\ Lists(order[n], name)
                     /\ \A m \in (n + 1)..Len(order) : ~Lists(order[m], name)]
    IN  [name \in names |-> LastOf(name)]

\* lines 51-52
Load ==
    /\ pc = "load"
    /\ data' = store
    /\ image_to_alias' = ImageToAlias(store)
    /\ Logged([op |-> "load"])
    /\ pc' = "update"
    /\ UNCHANGED <<before, store, args, exc, affected, idx, processVars, buildVars, tagVars, runVars, fileVars>>

\* update that leaves the definition as it is
UpdateForgets ==
    /\ pc = "update"
    /\ IF args.tag # None /\ ~HasInfo(args.alias)
       THEN Raise("AssertionError")
       ELSE pc' = "affected" /\ UNCHANGED exc
    /\ UNCHANGED <<before, store, args, affected, idx, log, data, image_to_alias, processVars,
                   buildVars, tagVars, runVars, fileVars>>

\* lines 54-55 and update, lines 86-88
Update ==
    /\ pc = "update"
    /\ IF args.tag = None
       THEN pc' = "affected" /\ UNCHANGED <<data, exc>>
       ELSE IF ~HasInfo(args.alias)
            THEN Raise("AssertionError") /\ UNCHANGED data
            ELSE /\ data' = [data EXCEPT ![args.alias].tag = args.tag]
                 /\ pc' = "affected"
                 /\ UNCHANGED exc
    /\ UNCHANGED <<before, store, args, affected, idx, log, image_to_alias, processVars,
                   buildVars, tagVars, runVars, fileVars>>

\* lines 57-59 and process, line 122: the call of _get_tmpl_tag
LoopNext ==
    /\ pc = "loop"
    /\ idx <= Len(affected)
    /\ IF affected[idx][2] = True
       THEN /\ proc_alias' = affected[idx][1]
            /\ proc_tag' = None
            /\ target' = affected[idx][1]
            /\ call' = affected[idx][1]
            /\ cache' = EmptyDict
            /\ stack' = <<>>
            /\ ret' = None
            /\ expanded' = EmptyDict
            /\ tpc' = "running"
            /\ pc' = "process"
            /\ before' = [before EXCEPT !.data = data, !.log = Len(log)]
            /\ UNCHANGED idx
       ELSE /\ idx' = idx + 1
            /\ UNCHANGED <<pc, before, processVars, tagVars>>
    /\ UNCHANGED <<store, args, exc, affected, log, data, image_to_alias, buildVars,
                   runVars, fileVars>>

\* line 57: the for loop is exhausted and update_cmd returns
LoopEnd ==
    /\ pc = "loop"
    /\ idx > Len(affected)
    /\ pc' = "returned"
    /\ UNCHANGED <<before, store, args, exc, affected, idx, log, data, image_to_alias,
                   processVars, buildVars, tagVars, runVars, fileVars>>

\* line 122: _get_tmpl_tag raised
ProcessRaised ==
    /\ pc = "process" /\ tpc = "raised"
    /\ Raise("AssertionError")
    /\ UNCHANGED <<before, store, args, affected, idx, log, data, image_to_alias,
                   processVars, buildVars, tagVars, runVars, fileVars>>

Workdir(info) == DictGet(info, "workdir")

\* line 125
Image(info, alias) ==
    IF Len(DictGetOr(info, "images", <<>>)) > 0 THEN info.images[1] ELSE alias

ProcessTaggedAssigns ==
    /\ pc = "process" /\ tpc = "returned"
    /\ proc_tag' = ret
    /\ data' = [data EXCEPT ![proc_alias].tag = ret]
    /\ pc' = IF Workdir(_get_info(proc_alias)) # None THEN "build" ELSE "hook"
    /\ UNCHANGED <<before, store, args, exc, affected, idx, log, image_to_alias,
                   proc_alias, buildVars, tagVars, runVars, fileVars>>

\* lines 122-128
ProcessTagged ==
    /\ pc = "process" /\ tpc = "returned"
    /\ proc_tag' = ret
    /\ pc' = IF Workdir(_get_info(proc_alias)) # None THEN "build" ELSE "hook"
    /\ UNCHANGED <<before, store, args, exc, affected, idx, log, data, image_to_alias,
                   proc_alias, buildVars, tagVars, runVars, fileVars>>

Dir == Workdir(_get_info(proc_alias))

Write(path, text) == fs' = [fs EXCEPT ![Dir][path] = text]

BuildOrderOverwriteFirst ==
    <<"build", "tmp_open", "tmp_write", "run", "dockerfile_open", "dockerfile_write",
      "bak_open", "bak_write", "tmp_remove">>

\* the statements of _build after the rewrite, lines 159-181, in order
BuildOrder ==
    <<"build", "tmp_open", "tmp_write", "run", "bak_open", "bak_write",
      "dockerfile_open", "dockerfile_write", "tmp_remove">>

\* the statement after step; _build returns to process, line 131, at its end
Following(step) ==
    LET n == CHOOSE n \in 1..Len(BuildOrder) : BuildOrder[n] = step
    IN  IF n = Len(BuildOrder) THEN "hook" ELSE BuildOrder[n + 1]

\* _build, lines 150-157
BuildRewrite ==
    /\ pc = "build"
    /\ before' = [before EXCEPT !.fs = fs]
    /\ return_code' = None
    /\ IF fs[Dir]["Dockerfile"] = None
       THEN Raise("FileNotFoundError") /\ UNCHANGED <<dockerfile, new_dockerfile>>
       ELSE /\ dockerfile' = fs[Dir]["Dockerfile"]
            /\ IF RewriteRaises(_get_info(proc_alias), fs[Dir]["Dockerfile"])
               THEN Raise("AssertionError") /\ UNCHANGED new_dockerfile
               ELSE /\ new_dockerfile' =
                          _DF_FROM_RE_sub(_get_info(proc_alias), fs[Dir]["Dockerfile"], 1)
                    /\ pc' = Following("build")
                    /\ UNCHANGED exc
    /\ UNCHANGED <<store, args, affected, idx, log, data, image_to_alias,
                   processVars, fs, tagVars, runVars, fileVars>>

\* line 159: open(dockerfile_tmp_path, 'w') creates or empties the file
BuildOpenTmp ==
    /\ pc = "tmp_open"
    /\ Write("Dockerfile.craftsbot", <<>>)
    /\ pc' = Following("tmp_open")
    /\ UNCHANGED <<before, store, args, exc, affected, idx, log, data, image_to_alias,
                   processVars, dockerfile, new_dockerfile, return_code, tagVars, runVars, fileVars>>

\* line 160
BuildWriteTmp ==
    /\ pc = "tmp_write"
    /\ Write("Dockerfile.craftsbot", new_dockerfile)
    /\ pc' = Following("tmp_write")
    /\ UNCHANGED <<before, store, args, exc, affected, idx, log, data, image_to_alias,
                   processVars, dockerfile, new_dockerfile, return_code, tagVars, runVars, fileVars>>

BuildRunUnchecked ==
    /\ pc = "run"
    /\ \E code \in {0, 1} :
          /\ return_code' = code
          /\ Logged([op |-> "build", alias |-> proc_alias, workdir |-> Dir,
                     f |-> fs[Dir]["Dockerfile.craftsbot"],
                     t |-> Image(_get_info(proc_alias), proc_alias) \o <<":">> \o proc_tag,
                     return_code |-> code])
          /\ pc' = Following("run") /\ UNCHANGED exc
    /\ UNCHANGED <<before, store, args, affected, idx, data, image_to_alias,
                   processVars, fs, dockerfile, new_dockerfile, tagVars, runVars, fileVars>>

\* lines 162-173: docker build -f <tmp> -t <image>:<tag> <workdir>; the
\* exit code is the build tool's
BuildRun ==
    /\ pc = "run"
    /\ \E code \in {0, 1} :
          /\ return_code' = code
          /\ Logged([op |-> "build", alias |-> proc_alias, workdir |-> Dir,
                     f |-> fs[Dir]["Dockerfile.craftsbot"],
                     t |-> Image(_get_info(proc_alias), proc_alias) \o <<":">> \o proc_tag,
                     return_code |-> code])
          /\ IF code # 0
             THEN Raise("BuildException")
             ELSE pc' = Following("run") /\ UNCHANGED exc
    /\ UNCHANGED <<before, store, args, affected, idx, data, image_to_alias,
                   processVars, fs, dockerfile, new_dockerfile, tagVars, runVars, fileVars>>

\* line 175
BuildOpenBak ==
    /\ pc = "bak_open"
    /\ Write("Dockerfile.bak", <<>>)
    /\ pc' = Following("bak_open")
    /\ UNCHANGED <<before, store, args, exc, affected, idx, log, data, image_to_alias,
                   processVars, dockerfile, new_dockerfile, return_code, tagVars, runVars, fileVars>>

BuildWriteBakRewritten ==
    /\ pc = "bak_write"
    /\ Write("Dockerfile.bak", new_dockerfile)
    /\ pc' = Following("bak_write")
    /\ UNCHANGED <<before, store, args, exc, affected, idx, log, data, image_to_alias,
                   processVars, dockerfile, new_dockerfile, return_code, tagVars, runVars, fileVars>>

\* line 176
BuildWriteBak ==
    /\ pc = "bak_write"
    /\ Write("Dockerfile.bak", dockerfile)
    /\ pc' = Following("bak_write")
    /\ UNCHANGED <<before, store, args, exc, affected, idx, log, data, image_to_alias,
                   processVars, dockerfile, new_dockerfile, return_code, tagVars, runVars, fileVars>>

\* line 178
BuildOpenDockerfile ==
    /\ pc = "dockerfile_open"
    /\ Write("Dockerfile", <<>>)
    /\ pc' = Following("dockerfile_open")
    /\ UNCHANGED <<before, store, args, exc, affected, idx, log, data, image_to_alias,
                   processVars, dockerfile, new_dockerfile, return_code, tagVars, runVars, fileVars>>

\* line 179
BuildWriteDockerfile ==
    /\ pc = "dockerfile_write"
    /\ Write("Dockerfile", new_dockerfile)
    /\ pc' = Following("dockerfile_write")
    /\ UNCHANGED <<before, store, args, exc, affected, idx, log, data, image_to_alias,
                   processVars, dockerfile, new_dockerfile, return_code, tagVars, runVars, fileVars>>

\* line 181, and the return of _build to process
BuildRemoveTmp ==
    /\ pc = "tmp_remove"
    /\ Write("Dockerfile.craftsbot", None)
    /\ pc' = Following("tmp_remove")
    /\ UNCHANGED <<before, store, args, exc, affected, idx, log, data, image_to_alias,
                   processVars, dockerfile, new_dockerfile, return_code, tagVars, runVars, fileVars>>

_build ==
    \/ BuildRewrite
    \/ BuildOpenTmp
    \/ BuildWriteTmp
    \/ BuildRun
    \/ BuildOpenBak
    \/ BuildWriteBak
    \/ BuildOpenDockerfile
    \/ BuildWriteDockerfile
    \/ BuildRemoveTmp

\* str.format(**ctx) on a text whose fields are the tokens "{image}",
\* "{alias}" and "{tag}"
RECURSIVE Format(_, _)
Format(text, ctx) ==
    IF text = <<>> THEN <<>>
    ELSE (IF Head(text) = "{image}" THEN ctx.image
          ELSE IF Head(text) = "{alias}" THEN ctx.alias
          ELSE IF Head(text) = "{tag}" THEN ctx.tag
          ELSE <<Head(text)>>) \o Format(Tail(text), ctx)

\* lines 131-132: no on_success hook
ProcessNoHook ==
    /\ pc = "hook"
    /\ "on_success" \notin DOMAIN _get_info(proc_alias)
    /\ pc' = "assign"
    /\ UNCHANGED <<before, store, args, exc, affected, idx, log, data, image_to_alias,
                   processVars, buildVars, tagVars, runVars, fileVars>>

\* the hook with the tag assigned before it is run
ProcessHookAssigns ==
    /\ pc = "hook"
    /\ "on_success" \in DOMAIN _get_info(proc_alias)
    /\ data' = [data EXCEPT ![proc_alias].tag = proc_tag]
    /\ LET hook == _get_info(proc_alias).on_success
           ctx == [image |-> Image(_get_info(proc_alias), proc_alias),
                   alias |-> proc_alias, tag |-> proc_tag]
       IN  \E code \in {0, 1} :
              /\ return_code' = code
              /\ Logged([op |-> "hook", alias |-> proc_alias,
                         cmd |-> [n \in 1..Len(hook.cmd) |-> Format(hook.cmd[n], ctx)],
                         return_code |-> code])
              /\ IF code # 0
                 THEN Raise("HookException")
                 ELSE pc' = "assign" /\ UNCHANGED exc
    /\ UNCHANGED <<before, store, args, affected, idx, image_to_alias,
                   processVars, fs, dockerfile, new_dockerfile, tagVars, runVars, fileVars>>

\* lines 131-135 and _execute_hook, lines 208-217; the exit code is the hook's
ProcessHook ==
    /\ pc = "hook"
    /\ "on_success" \in DOMAIN _get_info(proc_alias)
    /\ LET hook == _get_info(proc_alias).on_success
           ctx == [image |-> Image(_get_info(proc_alias), proc_alias),
                   alias |-> proc_alias, tag |-> proc_tag]
       IN  \E code \in {0, 1} :
              /\ return_code' = code
              /\ Logged([op |-> "hook", alias |-> proc_alias,
                         cmd |-> [n \in 1..Len(hook.cmd) |-> Format(hook.cmd[n], ctx)],
                         return_code |-> code])
              /\ IF code # 0
                 THEN Raise("HookException")
                 ELSE pc' = "assign" /\ UNCHANGED exc
    /\ UNCHANGED <<before, store, args, affected, idx, data, image_to_alias,
                   processVars, fs, dockerfile, new_dockerfile, tagVars, runVars, fileVars>>

\* process returning without line 137
ProcessAssignKeeps ==
    /\ pc = "assign"
    /\ Logged([op |-> "assign", alias |-> proc_alias, tag |-> proc_tag])
    /\ pc' = "save"
    /\ UNCHANGED <<before, store, args, exc, affected, idx, data, image_to_alias,
                   processVars, buildVars, tagVars, runVars, fileVars>>

\* line 137
ProcessAssign ==
    /\ pc = "assign"
    /\ data' = [data EXCEPT ![proc_alias].tag = proc_tag]
    /\ Logged([op |-> "assign", alias |-> proc_alias, tag |-> proc_tag])
    /\ pc' = "save"
    /\ UNCHANGED <<before, store, args, exc, affected, idx, image_to_alias,
                   processVars, buildVars, tagVars, runVars, fileVars>>

SaveAtTheEnd ==
    /\ pc = "save"
    /\ IF idx = Len(affected)
       THEN store' = data /\ Logged([op |-> "save"])
       ELSE UNCHANGED <<store, log>>
    /\ idx' = idx + 1
    /\ pc' = "loop"
    /\ UNCHANGED <<before, args, exc, affected, data, image_to_alias,
                   processVars, buildVars, tagVars, runVars, fileVars>>

\* update_cmd line 60 and save, lines 81-84
Save ==
    /\ pc = "save"
    /\ store' = data
    /\ Logged([op |-> "save"])
    /\ idx' = idx + 1
    /\ pc' = "loop"
    /\ UNCHANGED <<before, args, exc, affected, data, image_to_alias,
                   processVars, buildVars, tagVars, runVars, fileVars>>

process ==
    \/ ProcessRaised
    \/ ProcessTagged
    \/ ProcessNoHook
    \/ ProcessHook
    \/ ProcessAssign

update_cmd ==
    \/ Load
    \/ Update
    \/ Affected
    \/ LoopNext
    \/ LoopEnd
    \/ Save

---------------------------------------------------------------------------
(* The update command on the documents and work directories of RunConfigs *)

app_dir == <<"app_dir">>
web_dir == <<"web_dir">>

Hook == [cmd |-> << <<"notify">>, <<"{image}", ":", "{tag}">> >>]

\* a definition; with_hook says whether it has an on_success table
Image_(alias, tmpl, deps, images, workdir, with_hook) ==
    IF with_hook
    THEN [tag |-> LiteralTag[alias], tag_tmpl |-> tmpl, depends_on |-> deps,
          images |-> images, workdir |-> workdir, on_success |-> Hook]
    ELSE [tag |-> LiteralTag[alias], tag_tmpl |-> tmpl, depends_on |-> deps,
          images |-> images, workdir |-> workdir]

RunConfigs ==
    {[x \in Aliases |-> IF x = base THEN b ELSE IF x = app THEN a ELSE w] :
        b \in {Image_(base, None, EmptyDict, << <<"repo/base">> >>, None, FALSE)},
        a \in {Image_(app, t, [k \in {base} |-> d], <<>>, app_dir, h) :
                  t \in {None, <<"app-">> \o Placeholder(base), Placeholder(ghost)},
                  d \in {True, PinTag},
                  h \in BOOLEAN},
        w \in {Image_(web, t, [k \in {base, app} |-> True], <<>>, dir, FALSE) :
                  t \in {None, Placeholder(app) \o <<"-">> \o Placeholder(base)},
                  dir \in {None, web_dir}}}

AppDockerfiles ==
    {<<"FROM", " ", "repo/base", ":", "1", "\n", "RUN", " ", "make", "\n">>,
     <<"FROM", " ", "repo/base", " ", "AS", " ", "b", "\n",
       "FROM", " ", "scratch", ":", "0", "\n">>}

WebDockerfile == <<"FROM", " ", "app", ":", "2", "\n">>

StaleBak == <<"FROM", " ", "old", "\n">>

Files(df, bak) ==
    [path \in {"Dockerfile", "Dockerfile.bak", "Dockerfile.craftsbot"} |->
        IF path = "Dockerfile" THEN df ELSE IF path = "Dockerfile.bak" THEN bak ELSE None]

Init ==
    /\ store \in RunConfigs
    /\ args \in [alias : {base, app, ghost}, tag : {None, <<"7">>}]
    /\ fs \in {[d \in {app_dir, web_dir} |->
                  IF d = app_dir THEN Files(df, bak) ELSE Files(WebDockerfile, None)] :
               df \in AppDockerfiles, bak \in {None, StaleBak}}
    /\ pc = "load"
    /\ data = EmptyDict
    /\ image_to_alias = EmptyDict
    /\ Unset
    /\ TagIdle
    /\ RunIdle
    /\ FileIdle

Next ==
    \/ update_cmd
    \/ process
    \/ _build
    \/ _get_tmpl_tag

Spec == Init /\ [][Next]_vars

---------------------------------------------------------------------------
(* The manifest rewrite alone (lines 154-157), and once more on the        *)
(* manifest a successful _build has written (lines 178-179), for the       *)
(* definition app on manifests of at most MaxLines lines                   *)

MaxLines == 2

FromRefs == {<<"repo/base">>, base, <<"scratch">>}

LineKinds ==
    UNION {{<<"FROM", " ">> \o r, <<"FROM", " ">> \o r \o <<":", "1">>} : r \in FromRefs}
    \cup {<<"FROM", " ", "\t", "repo/base", ":", "1", " ", "AS", " ", "b">>,
          <<"FROM", " ", "base", " ", "AS", " ", "b">>,
          <<"RUN", " ", "make">>, <<" ", "FROM", " ", "repo/base">>, <<"FROM">>, <<>>}

RECURSIVE Lines(_)
Lines(ls) == IF ls = <<>> THEN <<>> ELSE Head(ls) \o <<"\n">> \o Lines(Tail(ls))

\* with and without the newline that ends the last line
Manifests ==
    LET whole == {Lines(ls) : ls \in UNION {[1..n -> LineKinds] : n \in 0..MaxLines}}
    IN  whole \cup {SubSeq(m, 1, Len(m) - 1) : m \in whole \ {<<>>}}

SpacedPin == <<"1", " ", "2">>

EmptyPin == <<>>

RewriteConfigs ==
    {[x \in {base, app} |-> IF x = base THEN b ELSE a] :
        b \in {Image_(base, None, EmptyDict, << <<"repo/base">> >>, None, FALSE)},
        a \in {Image_(app, None, d, <<>>, app_dir, FALSE) :
                  d \in UNION {[D -> {True, PinTag, SpacedPin, EmptyPin}] : D \in SUBSET {base}}
                        \cup {[k \in {base, <<"scratch">>} |-> IF k = base THEN v ELSE PinTag] :
                                 v \in {True, PinTag}}
                        \cup {[k \in {<<"scratch">>} |-> PinTag]}}}

InitRewrite ==
    /\ data \in RewriteConfigs
    /\ store = data
    /\ image_to_alias = ImageToAlias(data)
    /\ args = [alias |-> app, tag |-> None]
    /\ fs \in {[d \in {app_dir} |-> Files(m, None)] : m \in Manifests}
    /\ pc = "rewrite"
    /\ affected = <<>> /\ idx = 0
    /\ proc_alias = app /\ proc_tag = LiteralTag[app]
    /\ dockerfile = None /\ new_dockerfile = None /\ return_code = None
    /\ exc = None /\ log = <<>>
    /\ before = [data |-> data, fs |-> EmptyDict, log |-> 0]
    /\ TagIdle
    /\ RunIdle
    /\ FileIdle

\* lines 154-157
Rewrite ==
    /\ pc = "rewrite"
    /\ before' = [before EXCEPT !.fs = fs]
    /\ dockerfile' = fs[Dir]["Dockerfile"]
    /\ IF RewriteRaises(_get_info(proc_alias), fs[Dir]["Dockerfile"])
       THEN Raise("AssertionError") /\ UNCHANGED new_dockerfile
       ELSE /\ new_dockerfile' = _DF_FROM_RE_sub(_get_info(proc_alias), fs[Dir]["Dockerfile"], 1)
            /\ pc' = "rewritten"
            /\ UNCHANGED exc
    /\ UNCHANGED <<store, args, affected, idx, log, data, image_to_alias,
                   processVars, fs, return_code, tagVars, runVars, fileVars>>

\* lines 178-179, and lines 154-157 of the next _build of the same alias
RewriteAgain ==
    /\ pc = "rewritten"
    /\ Write("Dockerfile", new_dockerfile)
    /\ dockerfile' = new_dockerfile
    /\ IF RewriteRaises(_get_info(proc_alias), new_dockerfile)
       THEN Raise("AssertionError") /\ UNCHANGED new_dockerfile
       ELSE /\ new_dockerfile' = _DF_FROM_RE_sub(_get_info(proc_alias), new_dockerfile, 1)
            /\ pc' = "rewritten_again"
            /\ UNCHANGED exc
    /\ UNCHANGED <<before, store, args, affected, idx, log, data, image_to_alias,
                   processVars, return_code, tagVars, runVars, fileVars>>

NextRewrite == Rewrite \/ RewriteAgain

SpecRewrite == InitRewrite /\ [][NextRewrite]_vars

---------------------------------------------------------------------------
(* run (lines 220-257) and the child process it starts.  A byte is a      *)
(* token: "m" is a letter, "\n" the newline and "ESC[" the two bytes that *)
(* open a control sequence, which a letter closes.  The bytes are ASCII,  *)
(* so decode('utf-8') maps each to its character.  The child writes its   *)
(* script a token at a time and then exits; this closes its ends of both  *)
(* pipes.                                                                 *)

MaxOutput == 4

MaxRead == 2

STDOUT == "STDOUT"
STDERR == "STDERR"

Kinds == <<STDOUT, STDERR>>

Bytes == {"m", "\n", "ESC["}

Scripts == UNION {[1..n -> {STDOUT, STDERR} \X Bytes] : n \in 0..MaxOutput}

\* ANSI_ESCAPE.sub('', line), line 21: on these bytes the pattern matches
\* "ESC[" followed at once by a letter
RECURSIVE ANSI_ESCAPE_sub(_)
ANSI_ESCAPE_sub(line) ==
    IF line = <<>> THEN <<>>
    ELSE IF Len(line) >= 2 /\ line[1] = "ESC[" /\ line[2] = "m"
         THEN ANSI_ESCAPE_sub(Tail(Tail(line)))
         ELSE <<line[1]>> \o ANSI_ESCAPE_sub(Tail(line))

\* bytes.split(b'\n'): the pieces between the newlines, at least one
RECURSIVE Split(_)
Split(chunk) ==
    IF \A n \in 1..Len(chunk) : chunk[n] # "\n" THEN <<chunk>>
    ELSE LET n == CHOOSE n \in 1..Len(chunk) :
                     chunk[n] = "\n" /\ \A k \in 1..(n - 1) : chunk[k] # "\n"
         IN  <<SubSeq(chunk, 1, n - 1)>> \o Split(Tail2(chunk, n + 1))

\* chunk_lines[0] replacing the parts read before instead of joining them
ChunkReadOverwrites(kind, chunk) ==
    LET chunk_lines == Split(chunk)
        n == Len(chunk_lines)
    IN  /\ lines' = lines \o
              [i \in 1..(n - 1) |->
                  <<kind, ANSI_ESCAPE_sub(IF i = 1 THEN chunk_lines[1] ELSE chunk_lines[i])>>]
        /\ line_parts' = [line_parts EXCEPT ![kind] = chunk_lines[n]]

\* lines 231-239: a chunk read in the select loop
ChunkRead(kind, chunk) ==
    LET chunk_lines == Split(chunk)
        n == Len(chunk_lines)
    IN  /\ lines' = lines \o
              [i \in 1..(n - 1) |->
                  <<kind, ANSI_ESCAPE_sub(IF i = 1 THEN line_parts[kind] \o chunk_lines[1]
                                          ELSE chunk_lines[i])>>]
        /\ line_parts' = [line_parts EXCEPT
                             ![kind] = IF n = 1 THEN @ \o chunk_lines[1] ELSE chunk_lines[n]]

\* the final read leaving out the last entry when nothing follows the last newline
FinalReadSkipsEmpty(kind, rest) ==
    LET chunk_lines == Split(rest)
        joined == [i \in 1..Len(chunk_lines) |->
                      IF i = 1 THEN line_parts[kind] \o chunk_lines[1] ELSE chunk_lines[i]]
        n == IF joined[Len(joined)] = <<>> THEN Len(joined) - 1 ELSE Len(joined)
    IN  /\ lines' = lines \o [i \in 1..n |-> <<kind, ANSI_ESCAPE_sub(joined[i])>>]
        /\ line_parts' = [line_parts EXCEPT ![kind] = <<>>]

\* lines 248-255: the rest of a file, read to its end after the loop
FinalRead(kind, rest) ==
    LET chunk_lines == Split(rest)
    IN  /\ lines' = lines \o
              [i \in 1..Len(chunk_lines) |->
                  <<kind, ANSI_ESCAPE_sub(IF i = 1 THEN line_parts[kind] \o chunk_lines[1]
                                          ELSE chunk_lines[i])>>]
        /\ line_parts' = [line_parts EXCEPT ![kind] = <<>>]

\* the line of the file the child is writing: what it wrote since the last newline
RECURSIVE LineUnderWay(_)
LineUnderWay(s) ==
    IF s = <<>> \/ s[Len(s)] = "\n" THEN <<>>
    ELSE Append(LineUnderWay(SubSeq(s, 1, Len(s) - 1)), s[Len(s)])

\* the child writes the next byte of its script
ChildWrite ==
    /\ rpc # "idle" /\ child.script # <<>>
    /\ LET kind == Head(child.script)[1]
           byte == Head(child.script)[2]
       IN  /\ pipe' = [pipe EXCEPT ![kind] = Append(@, byte)]
           /\ written' = [written EXCEPT ![kind] = Append(@, byte)]
           /\ completed' = IF byte = "\n"
                            THEN Append(completed, <<kind, LineUnderWay(written[kind])>>)
                            ELSE completed
    /\ child' = [child EXCEPT !.script = Tail(@)]
    /\ UNCHANGED <<rpc, ready, lines, line_parts, run_result>>
    /\ UNCHANGED <<cmdVars, data, image_to_alias, processVars, buildVars, tagVars, fileVars>>

\* the exit statuses of a child, as texts
ExitCodes == {<<"0">>, <<"1">>}

\* the child terminates with some exit status
ChildExit ==
    /\ rpc # "idle" /\ child.script = <<>> /\ child.status = None
    /\ \E code \in ExitCodes : child' = [child EXCEPT !.status = code]
    /\ UNCHANGED <<pipe, rpc, ready, lines, line_parts, run_result, written, completed>>
    /\ UNCHANGED <<cmdVars, data, image_to_alias, processVars, buildVars, tagVars, fileVars>>

\* line 227: p.poll() sets p.returncode once the child has terminated
RunPoll ==
    /\ rpc = "poll"
    /\ IF child.status = None
       THEN rpc' = "select" /\ UNCHANGED <<child, ready>>
       ELSE /\ child' = [child EXCEPT !.returncode = child.status]
            /\ ready' = Kinds
            /\ rpc' = "drain"
    /\ UNCHANGED <<pipe, lines, line_parts, run_result, written, completed>>
    /\ UNCHANGED <<cmdVars, data, image_to_alias, processVars, buildVars, tagVars, fileVars>>

\* a file is readable when it holds bytes or is at its end
Readable(kind) == pipe[kind] # <<>> \/ child.status # None

\* line 229: select returns the readable files, in the order of f_map
RunSelect ==
    /\ rpc = "select"
    /\ \E kind \in {STDOUT, STDERR} : Readable(kind)
    /\ ready' = SelectSeq(Kinds, Readable)
    /\ rpc' = "for"
    /\ UNCHANGED <<child, pipe, lines, line_parts, run_result, written, completed>>
    /\ UNCHANGED <<cmdVars, data, image_to_alias, processVars, buildVars, tagVars, fileVars>>

\* lines 229-239: os.read of the next readable file, at most MaxRead bytes
RunRead ==
    /\ rpc = "for" /\ ready # <<>>
    /\ LET kind == Head(ready)
           size == IF Len(pipe[kind]) < MaxRead THEN Len(pipe[kind]) ELSE MaxRead
       IN  /\ ChunkRead(kind, SubSeq(pipe[kind], 1, size))
           /\ pipe' = [pipe EXCEPT ![kind] = Tail2(@, size + 1)]
    /\ ready' = Tail(ready)
    /\ UNCHANGED <<child, rpc, run_result, written, completed>>
    /\ UNCHANGED <<cmdVars, data, image_to_alias, processVars, buildVars, tagVars, fileVars>>

\* line 229: the for loop is exhausted, back to line 227
RunLoop ==
    /\ rpc = "for" /\ ready = <<>>
    /\ rpc' = "poll"
    /\ UNCHANGED <<child, pipe, ready, lines, line_parts, run_result, written, completed>>
    /\ UNCHANGED <<cmdVars, data, image_to_alias, processVars, buildVars, tagVars, fileVars>>

\* lines 247-255: f.read() returns at the end of the file, which the child's
\* termination has brought
RunDrain ==
    /\ rpc = "drain" /\ ready # <<>>
    /\ child.status # None
    /\ FinalRead(Head(ready), pipe[Head(ready)])
    /\ pipe' = [pipe EXCEPT ![Head(ready)] = <<>>]
    /\ ready' = Tail(ready)
    /\ UNCHANGED <<child, rpc, run_result, written, completed>>
    /\ UNCHANGED <<cmdVars, data, image_to_alias, processVars, buildVars, tagVars, fileVars>>

\* line 257
RunReturn ==
    /\ rpc = "drain" /\ ready = <<>>
    /\ run_result' = <<child.returncode, lines>>
    /\ rpc' = "returned"
    /\ UNCHANGED <<child, pipe, ready, lines, line_parts, written, completed>>
    /\ UNCHANGED <<cmdVars, data, image_to_alias, processVars, buildVars, tagVars, fileVars>>

run == RunPoll \/ RunSelect \/ RunRead \/ RunLoop \/ RunDrain \/ RunReturn

\* lines 221-226: the child is started, nothing is written or read yet
InitRun ==
    /\ child \in [script : Scripts, status : {None}, returncode : {None}]
    /\ pipe = [k \in {STDOUT, STDERR} |-> <<>>]
    /\ rpc = "poll"
    /\ ready = <<>>
    /\ lines = <<>>
    /\ line_parts = [k \in {STDOUT, STDERR} |-> <<>>]
    /\ run_result = None
    /\ written = [k \in {STDOUT, STDERR} |-> <<>>]
    /\ completed = <<>>
    /\ data = EmptyDict /\ store = EmptyDict
    /\ args = [alias |-> None, tag |-> None]
    /\ pc = "run" /\ image_to_alias = EmptyDict /\ fs = EmptyDict
    /\ Unset
    /\ TagIdle
    /\ FileIdle

NextRun == run \/ ChildWrite \/ ChildExit

SpecRun == InitRun /\ [][NextRun]_vars

---------------------------------------------------------------------------
(* FileOperation of pytonas (src/pytonas/pytonas.py, lines 117-171): apply *)
(* clones the directory of each file under self._dst, picks a name no     *)
(* file there has, and copies or moves the file to it.                    *)
(* A name is <<head, i, ext>>: head and ext as os.path.splitext gives     *)
(* them and i = 1 for the name itself, i > 1 for f'{head} ({i}){ext}'.    *)

MaxFiles == 2

\* the stop of range(2, 1000), line 166
RangeStop == 1000

OK == "OK"
ERROR == "ERROR"
CONFLICT_NAME == "CONFLICT_NAME"

Paths == {".", "a"}

Names == {<<"x", 1, ".mkv">>, <<"y", 1, "">>}

\* the File objects list_files makes, lines 64-69
Files_ == [status : {OK}, path : Paths, src_name : Names, dst_name : Names]

Listed == {f \in Files_ : f.dst_name = f.src_name}

\* the batches: files of different paths, at most MaxFiles of them
Batches ==
    {b \in UNION {[1..n -> Listed] : n \in 0..MaxFiles} :
        \A i, j \in 1..Len(b) : i # j => b[i] # b[j]}

\* the name with the number i, line 169
Numbered(name, i) == <<name[1], i, name[3]>>

\* what is under self._dst before apply: the directory "a" or not, and of
\* the names x.mkv, x (2).mkv, ... in "." none, one, all that
\* get_non_conflict_name tries but the last, or all of them
Destinations ==
    {[dirs |-> d, names |-> {<<".", Numbered(<<"x", 1, ".mkv">>, i)>> : i \in 1..n}] :
        d \in {{"."}, {".", "a"}}, n \in {0, 1, RangeStop - 3, RangeStop - 2}}

\* os.path.exists(os.path.join(path, name)), line 167
Exists(path, name) == <<path, name>> \in dst.names

\* lines 164-171: the first of name, f'{head} (2){ext}', ... that no file
\* has; the loop tests the name it enters a round with, so the name made
\* in the last round is not tested
get_non_conflict_name(path, name) ==
    LET free == {i \in 1..(RangeStop - 2) : ~Exists(path, Numbered(name, i))}
    IN  IF free = {} THEN None
        ELSE Numbered(name, CHOOSE i \in free : \A j \in free : i <= j)

\* the file of the round of the for loop under way
Current == files[fidx + 1]

\* lines 139-143: the directory is there, or os.makedirs and
\* shutil.copystat made it
Cloned == [dst EXCEPT !.dirs = @ \cup {Current.path}]

\* lines 131-133: status is not FileStatus.OK
Incorrect(status) ==
    /\ files' = [files EXCEPT ![fidx + 1].status = status]
    /\ incorrect' = Append(incorrect, fidx + 1)
    /\ failure' = Append(failure, status)
    /\ fidx' = fidx + 1
    /\ UNCHANGED <<correct, fpc>>

\* lines 139-146: os.makedirs or, after it, shutil.copystat raises OSError
ApplyCloneFails ==
    /\ fpc = "loop" /\ fidx < Len(files)
    /\ Current.path \notin dst.dirs
    /\ \E made \in BOOLEAN : dst' = IF made THEN Cloned ELSE dst
    /\ Incorrect(ERROR)
    /\ UNCHANGED <<cmdVars, data, image_to_alias, processVars, buildVars, tagVars, runVars>>

\* lines 150-153: no name is free; f.dst_name is a str, so calling it for
\* the warning raises TypeError, which nothing in apply catches
ApplyConflict ==
    /\ fpc = "loop" /\ fidx < Len(files)
    /\ get_non_conflict_name(Current.path, Current.dst_name) = None
    /\ dst' = Cloned
    /\ fpc' = "raised"
    /\ failure' = Append(failure, CONFLICT_NAME)
    /\ UNCHANGED <<files, fidx, correct, incorrect>>
    /\ UNCHANGED <<cmdVars, data, image_to_alias, processVars, buildVars, tagVars, runVars>>

\* lines 150-162: a name is free and self._op raises OSError
ApplyOpFails ==
    /\ fpc = "loop" /\ fidx < Len(files)
    /\ LET name == get_non_conflict_name(Current.path, Current.dst_name)
       IN  /\ name # None
           /\ files' = [files EXCEPT ![fidx + 1].dst_name = name,
                                     ![fidx + 1].status = ERROR]
    /\ dst' = Cloned
    /\ incorrect' = Append(incorrect, fidx + 1)
    /\ failure' = Append(failure, ERROR)
    /\ fidx' = fidx + 1
    /\ UNCHANGED <<correct, fpc>>
    /\ UNCHANGED <<cmdVars, data, image_to_alias, processVars, buildVars, tagVars, runVars>>

\* lines 150-164 and 129-130: a name is free and self._op puts the file there
ApplyOk ==
    /\ fpc = "loop" /\ fidx < Len(files)
    /\ LET name == get_non_conflict_name(Current.path, Current.dst_name)
       IN  /\ name # None
           /\ files' = [files EXCEPT ![fidx + 1].dst_name = name]
           /\ dst' = [Cloned EXCEPT !.names = @ \cup {<<Current.path, name>>}]
    /\ correct' = Append(correct, fidx + 1)
    /\ failure' = Append(failure, OK)
    /\ fidx' = fidx + 1
    /\ UNCHANGED <<incorrect, fpc>>
    /\ UNCHANGED <<cmdVars, data, image_to_alias, processVars, buildVars, tagVars, runVars>>

\* line 134: return (correct, incorrect)
ApplyReturn ==
    /\ fpc = "loop" /\ fidx = Len(files)
    /\ fpc' = "returned"
    /\ UNCHANGED <<files, dst, fidx, correct, incorrect, failure>>
    /\ UNCHANGED <<cmdVars, data, image_to_alias, processVars, buildVars, tagVars, runVars>>

apply == ApplyCloneFails \/ ApplyConflict \/ ApplyOpFails \/ ApplyOk \/ ApplyReturn

\* lines 124-127: apply is entered
InitFile ==
    /\ files \in Batches
    /\ dst \in Destinations
    /\ fidx = 0 /\ correct = <<>> /\ incorrect = <<>> /\ failure = <<>>
    /\ fpc = "loop"
    /\ data = EmptyDict /\ store = EmptyDict
    /\ args = [alias |-> None, tag |-> None]
    /\ pc = "apply" /\ image_to_alias = EmptyDict /\ fs = EmptyDict
    /\ Unset
    /\ TagIdle
    /\ RunIdle

NextFile == apply

SpecFile == InitFile /\ [][NextFile]_vars

---------------------------------------------------------------------------
(* The placeholders of a template and the references between templates *)

RECURSIVE AllRefs(_)
AllRefs(s) ==
    IF ~HasMatch(s) THEN {}
    ELSE LET m == _IMAGE_RE_search(s)
         IN  {m.group1} \cup AllRefs(Tail2(s, m.end + 1))

Templated(x) == x \in DOMAIN data /\ data[x].tag_tmpl # None

IsPinned(x, r) == DictGet(data[x].depends_on, r) \notin {None, True}

\* every placeholder of x's template
AnyEdges == [x \in DOMAIN data |->
                IF Templated(x) THEN AllRefs(data[x].tag_tmpl) ELSE {}]

\* the placeholders of x's template that x's depends_on does not pin
UnpinnedEdges == [x \in DOMAIN data |->
                     IF Templated(x)
                     THEN {r \in AllRefs(data[x].tag_tmpl) : ~IsPinned(x, r)}
                     ELSE {}]

RECURSIVE Closure(_, _)
Closure(E, S) ==
    LET N == S \cup UNION {E[y] : y \in S \cap DOMAIN E}
    IN  IF N = S THEN S ELSE Closure(E, N)

\* what x reaches in one or more references
ReachedFrom(E, x) == IF x \in DOMAIN E THEN Closure(E, E[x]) ELSE {}

RefersBack(E, x) == x \in ReachedFrom(E, x)

NonCyclic(E, x) ==
    /\ ~RefersBack(E, x)
    /\ \A y \in ReachedFrom(E, x) : ~RefersBack(E, y)

AllDefined(E, x) == ReachedFrom(E, x) \subseteq DOMAIN data

Contains(s, token) == \E i \in 1..Len(s) : s[i] = token

Finished == tpc \in {"returned", "raised"}

---------------------------------------------------------------------------
(* The live edges of the depends_on graph, as a relation *)

\* the definitions that track x's tag: those whose depends_on[x] is True
LiveDependents == [x \in DOMAIN data |->
                      {y \in DOMAIN data : DictGet(data[y].depends_on, x) = True}]

AcyclicLive == \A x \in DOMAIN data : ~RefersBack(LiveDependents, x)

AffectedAliases == {affected[n][1] : n \in 1..Len(affected)}

(* C1: for every acyclic live-edge graph and every start alias, the list  *)
(* of get_affected_images(start) holds the start and every alias that     *)
(* reaches it through live depends_on entries, each exactly once, and an  *)
(* alias stands before every listed alias that transitively depends on it *)
C1_TopologicalOrder ==
    (pc = "loop" /\ AcyclicLive)
        => /\ AffectedAliases = {args.alias} \cup ReachedFrom(LiveDependents, args.alias)
           /\ \A m, n \in 1..Len(affected) :
                  /\ affected[m][2] = True
                  /\ m # n => affected[m] # affected[n]
                  /\ affected[n][1] \in ReachedFrom(LiveDependents, affected[m][1]) => m < n

\* a diamond: two dependents of the start with a common dependent
C1_Witness ==
    /\ pc = "loop" /\ AcyclicLive
    /\ Len(affected) = 4
    /\ \E y, z \in LiveDependents[args.alias] :
          /\ y # z
          /\ LiveDependents[y] \cap LiveDependents[z] # {}
          /\ LiveDependents[args.alias] \cap LiveDependents[y] = {}

---------------------------------------------------------------------------
(* C2: for every set of definitions, cyclic ones included, a call of      *)
(* _get_tmpl_tag ends (it returns or raises), and within the call no      *)
(* alias has its template expanded more than once.                        *)
C2_Terminates ==
    /\ <>Finished
    /\ [](\A x \in DOMAIN expanded : expanded[x] <= 1)

\* a call that returned although two templates refer to each other
C2_Witness ==
    /\ tpc = "returned"
    /\ RefersBack(UnpinnedEdges, target)
    /\ target \notin UnpinnedEdges[target]
    /\ Cardinality(DOMAIN expanded) >= 2

---------------------------------------------------------------------------
(* C3 as stated: when the template of the alias refers back to the alias, *)
(* directly or through a chain of templates, _get_tmpl_tag returns        *)
(* exactly the sentinel "CIRCULAR_DEPENDENCY".                            *)
C3_Original ==
    (tpc = "returned" /\ RefersBack(UnpinnedEdges, target))
        => ret = <<"CIRCULAR_DEPENDENCY">>

(* C3: when the template of the alias refers back to the alias through    *)
(* placeholders none of which is pinned to a literal, the tag returned    *)
(* contains the sentinel "CIRCULAR_DEPENDENCY" where the back reference   *)
(* stood; it is the sentinel alone when the template is nothing but an    *)
(* unpinned placeholder of the alias itself.                              *)
C3_SentinelEmbedded ==
    (tpc = "returned" /\ RefersBack(UnpinnedEdges, target))
        => /\ Contains(ret, "CIRCULAR_DEPENDENCY")
           /\ data[target].tag_tmpl = Placeholder(target)
                 => ret = <<"CIRCULAR_DEPENDENCY">>

\* a cycle through a second template, around text that is kept
C3_Witness ==
    /\ tpc = "returned"
    /\ RefersBack(UnpinnedEdges, target)
    /\ target \notin UnpinnedEdges[target]
    /\ Contains(ret, "CIRCULAR_DEPENDENCY")
    /\ ret # <<"CIRCULAR_DEPENDENCY">>

---------------------------------------------------------------------------
(* The substitution the resolver is to compute, without a memo *)

RECURSIVE Resolved(_), Substituted(_, _)
Resolved(x) ==
    IF data[x].tag_tmpl = None THEN data[x].tag
    ELSE Substituted(data[x].tag_tmpl, x)

Substituted(s, x) ==
    IF ~HasMatch(s) THEN s
    ELSE LET m == _IMAGE_RE_search(s)
         IN  SubSeq(s, 1, m.start - 1)
               \o (IF IsPinned(x, m.group1)
                   THEN data[x].depends_on[m.group1]
                   ELSE Resolved(m.group1))
               \o Substituted(Tail2(s, m.end + 1), x)

RECURSIVE ResolvedUnpinned(_), SubstitutedUnpinned(_)
ResolvedUnpinned(x) ==
    IF data[x].tag_tmpl = None THEN data[x].tag
    ELSE SubstitutedUnpinned(data[x].tag_tmpl)

SubstitutedUnpinned(s) ==
    IF ~HasMatch(s) THEN s
    ELSE LET m == _IMAGE_RE_search(s)
         IN  SubSeq(s, 1, m.start - 1) \o ResolvedUnpinned(m.group1)
               \o SubstitutedUnpinned(Tail2(s, m.end + 1))

(* C4 as stated: for non-cyclic templates the tag returned is the         *)
(* template with every placeholder replaced by the resolved tag of the    *)
(* alias it names.                                                        *)
C4_Original ==
    (tpc = "returned" /\ NonCyclic(AnyEdges, target) /\ AllDefined(AnyEdges, target))
        => ret = ResolvedUnpinned(target)

(* C4: for templates with no cycle through unpinned placeholders, all     *)
(* naming defined aliases, _get_tmpl_tag returns the template with every  *)
(* placeholder replaced, by the literal the definition's depends_on pins  *)
(* the named alias to, and else by the resolved tag of the named alias    *)
(* (its stored tag without a tag_tmpl, its expanded template otherwise),  *)
(* all other text unchanged.                                              *)
C4_ExactSubstitution ==
    (NonCyclic(UnpinnedEdges, target) /\ AllDefined(UnpinnedEdges, target))
        => /\ tpc # "raised"
           /\ tpc = "returned" => ret = Resolved(target)

\* two placeholders, one pinned and one resolved through a second template
C4_Witness ==
    /\ tpc = "returned"
    /\ NonCyclic(UnpinnedEdges, target)
    /\ \E r \in UnpinnedEdges[target] : Templated(r)
    /\ \E r \in AnyEdges[target] : IsPinned(target, r)
    /\ ret = Resolved(target)

---------------------------------------------------------------------------
(* The files of the work directory of the alias being processed, now and  *)
(* when _build was entered, and what the log holds of this process call   *)

Manifest == fs[Dir]["Dockerfile"]
Backup == fs[Dir]["Dockerfile.bak"]
Temporary == fs[Dir]["Dockerfile.craftsbot"]

ManifestBefore == before.fs[Dir]["Dockerfile"]
BackupBefore == before.fs[Dir]["Dockerfile.bak"]

\* control is inside _build, past the read of the manifest
InBuild == \E n \in 2..Len(BuildOrder) : pc = BuildOrder[n]

Last == log[Len(log)]

BuildFailed == log # <<>> /\ Last.op = "build" /\ Last.return_code # 0

HookFailed == log # <<>> /\ Last.op = "hook" /\ Last.return_code # 0

\* the events of the process call under way (or the one that raised)
Since == {n \in (before.log + 1)..Len(log) : TRUE}

Succeeded(op) ==
    \E n \in Since : log[n].op = op /\ log[n].alias = proc_alias /\ log[n].return_code = 0

Count(op) == Cardinality({n \in 1..Len(log) : log[n].op = op})

\* _build has returned to process for an alias that has a workdir
Built == pc \in {"hook", "assign", "save"} /\ Dir # None

---------------------------------------------------------------------------
(* C5: inside _build, whenever the live manifest differs from what it     *)
(* held when _build was entered, the build tool has returned 0 and the    *)
(* .bak file holds the original manifest.                                 *)
C5_BackupBeforeOverwrite ==
    (InBuild /\ Manifest # ManifestBefore)
        => /\ return_code = 0
           /\ Backup = ManifestBefore
           /\ dockerfile = ManifestBefore

\* the manifest has just been emptied for the overwrite
C5_Witness ==
    /\ pc = "dockerfile_write"
    /\ Manifest # ManifestBefore
    /\ new_dockerfile # ManifestBefore
    /\ Backup = ManifestBefore
    /\ BackupBefore # Backup

---------------------------------------------------------------------------
(* C6: when the build tool exits non-zero, _build raises BuildException   *)
(* and leaves the manifest and the .bak file (absent, or the one of an    *)
(* earlier run) as they were; the temporary manifest stays in place with  *)
(* the rewritten content.                                                 *)
C6_FailedBuildKeepsFiles ==
    BuildFailed
        => /\ pc = "raised" /\ exc = "BuildException"
           /\ Manifest = ManifestBefore
           /\ Backup = BackupBefore
           /\ Temporary # None /\ Temporary = new_dockerfile
           /\ \A d \in DOMAIN fs : d # Dir => fs[d] = before.fs[d]

\* a failed build of a manifest the rewrite changes, with no .bak before
C6_Witness ==
    /\ BuildFailed
    /\ new_dockerfile # Manifest
    /\ Backup = None
    /\ Temporary = new_dockerfile

---------------------------------------------------------------------------
(* C7: when the build tool exits 0, once _build has returned the .bak     *)
(* file holds the manifest as it was before the rewrite, the live         *)
(* manifest holds the rewritten manifest, and the temporary manifest no   *)
(* longer exists.                                                         *)
C7_SuccessfulBuildSwapsFiles ==
    Built
        => /\ Succeeded("build")
           /\ Backup = ManifestBefore
           /\ Manifest = _DF_FROM_RE_sub(_get_info(proc_alias), ManifestBefore, 1)
           /\ Temporary = None

\* the rewrite changed the manifest and the backup replaced an older one
C7_Witness ==
    /\ pc = "hook" /\ Dir # None
    /\ Manifest # ManifestBefore
    /\ BackupBefore \notin {None, Backup}
    /\ Backup = ManifestBefore

---------------------------------------------------------------------------
(* C8: once process(alias) has failed with BuildException or              *)
(* HookException, nothing more is done: the failing build or hook is the  *)
(* last event of the run, the aliases after the failing one are never     *)
(* processed, and update_cmd has ended with the exception.                *)
C8_FailureAbortsTheRest ==
    (\E n \in 1..Len(log) : log[n].op \in {"build", "hook"} /\ log[n].return_code # 0)
        => /\ BuildFailed \/ HookFailed
           /\ pc = "raised"
           /\ exc = (IF BuildFailed THEN "BuildException" ELSE "HookException")
           /\ affected[idx][1] = Last.alias
           /\ \A n \in (idx + 1)..Len(affected) :
                 \A m \in 1..Len(log) :
                    log[m].op \in {"build", "hook", "assign"} => log[m].alias # affected[n][1]

\* a hook failed while a buildable alias was still to be processed
C8_Witness ==
    /\ HookFailed /\ pc = "raised"
    /\ idx < Len(affected)
    /\ Workdir(data[affected[idx + 1][1]]) # None

---------------------------------------------------------------------------
---------------------------------------------------------------------------
(* C10: process(alias) assigns the tag of the alias only after the build  *)
(* (for an alias with a workdir) and the on_success hook (when there is   *)
(* one) have succeeded; until then, and when either fails, every tag is   *)
(* as it was when process was entered.                                    *)
C10_TagAfterSuccess ==
    /\ (pc \in {"process", "hook", "assign"} \/ InBuild \/ pc = "build")
          => data = before.data
    /\ (pc = "raised" /\ exc \in {"BuildException", "HookException"})
          => data = before.data
    /\ pc = "save"
          => /\ data = [before.data EXCEPT ![proc_alias].tag = proc_tag]
             /\ Dir # None => Succeeded("build")
             /\ "on_success" \in DOMAIN data[proc_alias] => Succeeded("hook")
             /\ Last = [op |-> "assign", alias |-> proc_alias, tag |-> proc_tag]

\* a new tag assigned after a build and a hook that both succeeded
C10_Witness ==
    /\ pc = "save"
    /\ Succeeded("build") /\ Succeeded("hook")
    /\ data[proc_alias].tag # before.data[proc_alias].tag

---------------------------------------------------------------------------
(* The FROM lines of the manifest _build read and of the one it made *)

FromLinesRead == FromMatches(dockerfile, 1)

FromLinesMade == FromMatches(new_dockerfile, 1)

Info == _get_info(proc_alias)

\* a FROM line of the given reference, tag and trailing white space
FromLine(ref, tag, trailing) == <<"FROM", " ">> \o ref \o <<":">> \o tag \o <<trailing>>

\* the FROM line m names a dependency with a live edge, or one pinned to a
\* literal
IsLive(m) == FromTag(Info, m) = True

IsLiteral(m) == FromTag(Info, m) \notin {None, True}

Resolvable(x) ==
    /\ x \in DOMAIN data
    /\ NonCyclic(UnpinnedEdges, x)
    /\ AllDefined(UnpinnedEdges, x)

(* C11 as stated: a FROM line whose reference maps to a dependency with a *)
(* live edge is pinned to the tag _get_tmpl_tag resolves for that         *)
(* dependency; with a literal pin, to the literal.                        *)
C11_Original ==
    InBuild
        => LET read == FromLinesRead
               made == FromLinesMade
           IN  /\ Len(made) = Len(read)
               /\ \A n \in 1..Len(read) :
                     LET m == read[n]
                     IN  /\ (IsLive(m) /\ Resolvable(FromAlias(m)))
                               => made[n].group0
                                     = FromLine(m.group1, Resolved(FromAlias(m)), m.group2)
                         /\ IsLiteral(m)
                               => made[n].group0
                                     = FromLine(m.group1, FromTag(Info, m), m.group2)

(* C11: a FROM line whose reference maps to a dependency with a live edge *)
(* is pinned to the tag stored for that dependency when _build runs (the  *)
(* tag field of its definition, whatever its template resolves to); with  *)
(* a literal pin, to the literal.                                         *)
C11_PinnedToStoredTag ==
    InBuild
        => LET read == FromLinesRead
               made == FromLinesMade
           IN  /\ Len(made) = Len(read)
               /\ \A n \in 1..Len(read) :
                     LET m == read[n]
                     IN  /\ IsLive(m)
                               => made[n].group0
                                     = FromLine(m.group1, data[FromAlias(m)].tag, m.group2)
                         /\ IsLiteral(m)
                               => made[n].group0
                                     = FromLine(m.group1, FromTag(Info, m), m.group2)

\* a line pinned to a stored tag that is not what the template resolves to
C11_Witness ==
    /\ InBuild
    /\ LET read == FromLinesRead
           made == FromLinesMade
       IN  \E n \in 1..Len(read) :
              /\ IsLive(read[n])
              /\ Resolvable(FromAlias(read[n]))
              /\ Resolved(FromAlias(read[n])) # data[FromAlias(read[n])].tag
              /\ made[n].group0
                    = FromLine(read[n].group1, data[FromAlias(read[n])].tag, read[n].group2)

---------------------------------------------------------------------------
(* The depends_on entries of either kind, as a relation *)

\* the definitions with a depends_on entry for x, live or pinned
AnyDependents == [x \in DOMAIN data |->
                     {y \in DOMAIN data : DictGet(data[y].depends_on, x) # None}]

LiveReach == {args.alias} \cup ReachedFrom(LiveDependents, args.alias)

AnyReach == {args.alias} \cup ReachedFrom(AnyDependents, args.alias)

(* C12: an alias that depends on the start only through chains of         *)
(* depends_on entries holding a literal somewhere is not in               *)
(* get_affected_images(start): the list holds the start and aliases that  *)
(* reach it through live entries alone, on cyclic graphs too.             *)
C12_PinnedEdgesNotTraversed ==
    pc = "loop"
        => /\ AffectedAliases \subseteq LiveReach
           /\ \A y \in AnyReach \ LiveReach : y \notin AffectedAliases

\* a pinned dependent of the start, and a live dependent of that one, both
\* left out beside a live dependent that is listed
C12_Witness ==
    /\ pc = "loop"
    /\ Len(affected) >= 2
    /\ \E y, z \in AnyReach \ LiveReach :
          /\ DictGet(data[y].depends_on, args.alias) = PinTag
          /\ DictGet(data[z].depends_on, y) = True
          /\ {y, z} \cap AffectedAliases = {}

---------------------------------------------------------------------------
(* C13: on every live-edge graph, with self references, cycles and        *)
(* diamonds, get_affected_images(start) returns (the call has a result),  *)
(* and its list holds the start and every alias that reaches it through   *)
(* live entries exactly once (no alias is visited a second time).         *)
C13_EachReachableOnce ==
    /\ pc = "affected" => get_affected_images(args.alias, True) \in Seq(AllAliases \X {True})
    /\ pc = "loop"
          => /\ AffectedAliases = LiveReach
             /\ Len(affected) = Cardinality(LiveReach)
             /\ \A n \in 1..Len(affected) : affected[n][2] = True

\* a start that depends on itself, inside a longer cycle
C13_Witness ==
    /\ pc = "loop"
    /\ args.alias \in LiveDependents[args.alias]
    /\ \E y \in LiveDependents[args.alias] \ {args.alias} :
          /\ args.alias \notin LiveDependents[y]
          /\ RefersBack(LiveDependents, y)
    /\ Len(affected) >= 3

---------------------------------------------------------------------------
(* The aliases the call for target names in placeholders, and those among *)
(* them that every definition naming them pins to a literal               *)

\* the definitions whose templates the call expands
Holders == ({target} \cup ReachedFrom(UnpinnedEdges, target)) \cap DOMAIN data

PinnedOnly ==
    UNION {AnyEdges[h] : h \in Holders} \ ({target} \cup ReachedFrom(UnpinnedEdges, target))

(* C14: a placeholder naming an alias that the depends_on of the holding  *)
(* definition maps to a literal is replaced by the literal and the alias  *)
(* is not resolved: get_tmpl_tag_rec is never entered with it, so neither *)
(* its tag nor its tag_tmpl is read and it needs no definition; a         *)
(* template that is this placeholder alone resolves to the literal.       *)
C14_PinnedNotResolved ==
    /\ \A r \in PinnedOnly :
          /\ call # r
          /\ r \notin DOMAIN cache
          /\ \A n \in 1..Len(stack) : stack[n].alias # r
    /\ (tpc = "raised" /\ HasInfo(target))
          => ~AllDefined(UnpinnedEdges, target)
    /\ (tpc = "returned" /\ Templated(target))
          => \A r \in PinnedOnly :
                data[target].tag_tmpl = Placeholder(r) => ret = data[target].depends_on[r]

\* the call returned the literal for an alias that has no definition
C14_Witness ==
    /\ tpc = "returned"
    /\ \E r \in PinnedOnly :
          /\ r \notin DOMAIN data
          /\ Contains(ret, PinTag[1])
          /\ ret # PinTag

---------------------------------------------------------------------------
(* The tags the rewrite writes for the definition being built *)

TagsWritten ==
    {IF Info.depends_on[k] = True THEN data[k].tag ELSE Info.depends_on[k] :
        k \in {k \in DOMAIN Info.depends_on : Info.depends_on[k] # True \/ k \in DOMAIN data}}

\* an image tag: not empty, no white space
IsImageTag(t) == t # <<>> /\ \A n \in 1..Len(t) : ~IsSpace(t[n])

(* C15 as stated: rewriting the manifest the rewrite produced, with the   *)
(* same definitions, yields the identical manifest.                       *)
C15_Original ==
    pc = "rewritten_again" => new_dockerfile = dockerfile

(* C15: when every tag the rewrite writes (the literals of depends_on and *)
(* the stored tags of the live dependencies) is not empty and holds no    *)
(* white space, and no key of depends_on holds a colon, rewriting the     *)
(* manifest the rewrite produced, with the same definitions, yields the   *)
(* identical manifest.                                                    *)
C15_IdempotentForImageTags ==
    (/\ pc = "rewritten_again"
     /\ \A t \in TagsWritten : IsImageTag(t)
     /\ \A k \in DOMAIN Info.depends_on : ~Contains(k, ":"))
        => new_dockerfile = dockerfile

\* the first rewrite changed two FROM lines and the second changed nothing
C15_Witness ==
    /\ pc = "rewritten_again"
    /\ \A t \in TagsWritten : IsImageTag(t)
    /\ dockerfile # ManifestBefore
    /\ Len(FromMatches(ManifestBefore, 1)) = 2
    /\ \A n \in 1..2 : FromTag(Info, FromMatches(ManifestBefore, 1)[n]) # None
    /\ new_dockerfile = dockerfile

---------------------------------------------------------------------------
(* t is s with nothing changed but FROM lines whose reference is a key of *)
(* depends_on: from the n-th match of ms on, s from i and t from j agree  *)
(* between the matches and on every match whose reference is no key, and  *)
(* a match whose reference is a key became a FROM line of that reference  *)
(* ending in the same white space.                                        *)
RECURSIVE KeepsFrame(_, _, _, _, _, _)
KeepsFrame(s, t, ms, n, i, j) ==
    IF n > Len(ms) THEN Tail2(s, i) = Tail2(t, j)
    ELSE LET m == ms[n]
             k == j + (m.start - i)
             head == <<"FROM", " ">> \o m.group1 \o <<":">>
         IN  /\ k <= Len(t)
             /\ SubSeq(s, i, m.start - 1) = SubSeq(t, j, k - 1)
             /\ IF FromTag(Info, m) = None
                THEN /\ k + Len(m.group0) - 1 <= Len(t)
                     /\ SubSeq(t, k, k + Len(m.group0) - 1) = m.group0
                     /\ KeepsFrame(s, t, ms, n + 1, m.end + 1, k + Len(m.group0))
                ELSE \E e \in (k + Len(head))..Len(t) :
                        /\ SubSeq(t, k, k + Len(head) - 1) = head
                        /\ t[e] = m.group2
                        /\ KeepsFrame(s, t, ms, n + 1, m.end + 1, e + 1)

Rewritten == pc \in {"rewritten", "rewritten_again"}

(* C19: a FROM line whose reference, mapped through the image name index  *)
(* or taken as is, is no key of depends_on is left as it is, and the      *)
(* rewrite changes nothing outside the FROM lines it matches; a manifest  *)
(* none of whose FROM lines names a key is returned unchanged.            *)
C19_OtherLinesUnchanged ==
    Rewritten
        => LET read == FromLinesRead
           IN  /\ KeepsFrame(dockerfile, new_dockerfile, read, 1, 1, 1)
               /\ (\A n \in 1..Len(read) : FromTag(Info, read[n]) = None)
                     => new_dockerfile = dockerfile

\* one FROM line rewritten and another, of an unmapped reference, kept
C19_Witness ==
    /\ pc = "rewritten"
    /\ new_dockerfile # dockerfile
    /\ LET read == FromLinesRead
       IN  /\ Len(read) = 2
           /\ FromTag(Info, read[1]) # None
           /\ FromTag(Info, read[2]) = None
           /\ read[2].group1 \notin DOMAIN image_to_alias

---------------------------------------------------------------------------
(* A run of update <alias> <tag> that returned, and the buildable         *)
(* definitions that follow the updated alias: a live depends_on entry for *)
(* it and a template with a placeholder for it                            *)

\* the updated alias is one whose tag is literal (it has no tag_tmpl)
UpdatedAndDone == pc = "returned" /\ args.tag # None /\ ~Templated(args.alias)

Followers ==
    {x \in DOMAIN data :
        /\ Workdir(data[x]) # None
        /\ DictGet(data[x].depends_on, args.alias) = True
        /\ Templated(x)
        /\ args.alias \in AllRefs(data[x].tag_tmpl)}

ManifestOf(x) == fs[Workdir(data[x])]["Dockerfile"]

BackupOf(x) == fs[Workdir(data[x])]["Dockerfile.bak"]

\* the FROM lines of the manifest of x that name the updated alias are
\* FROM <ref>:<tag> now, whatever tag they had
PinnedTo(x, tag) ==
    LET old == FromMatches(BackupOf(x), 1)
        new == FromMatches(ManifestOf(x), 1)
    IN  /\ Len(new) = Len(old)
        /\ \A n \in 1..Len(old) :
              DictGetOr(image_to_alias, old[n].group1, old[n].group1) = args.alias
                 => new[n].group0 = FromLine(old[n].group1, tag, old[n].group2)

BuiltWith(x, tag) ==
    \E n \in 1..Len(log) :
       /\ log[n].op = "build" /\ log[n].alias = x /\ log[n].return_code = 0
       /\ log[n].t = Image(data[x], x) \o <<":">> \o tag
       /\ log[n].f = ManifestOf(x)
       /\ log[n].workdir = Workdir(data[x])

(* C16: after update(base, t), for a base whose tag is literal, and a     *)
(* successful processing of the affected aliases of base, base has the    *)
(* tag t and for every buildable alias with a live edge to base           *)
(* and a tag_tmpl naming base: the FROM lines of its manifest that name   *)
(* base read FROM <ref>:t, the build was run on that manifest with the    *)
(* tag its template expands to with t for base, and that tag is the tag   *)
(* stored for the alias.                                                  *)
C16_UpdatePropagates ==
    UpdatedAndDone
        => /\ data[args.alias].tag = args.tag
           /\ \A x \in Followers :
                 /\ PinnedTo(x, args.tag)
                 /\ BuiltWith(x, Resolved(x))
                 /\ store[x].tag = Resolved(x)
                 /\ data[x].tag_tmpl = <<"app-">> \o Placeholder(args.alias)
                       => store[x].tag = <<"app-">> \o args.tag

\* app followed base: its FROM line went from the old tag to the new one
C16_Witness ==
    /\ UpdatedAndDone
    /\ app \in Followers
    /\ BackupOf(app) = <<"FROM", " ", "repo/base", ":", "1", "\n", "RUN", " ", "make", "\n">>
    /\ ManifestOf(app) = <<"FROM", " ", "repo/base", ":", "7", "\n", "RUN", " ", "make", "\n">>
    /\ store[app].tag = <<"app-", "7">>
    /\ BuiltWith(app, <<"app-", "7">>)

---------------------------------------------------------------------------
(* What run returned, by file, and what the child wrote *)

Done == rpc = "returned"

Returned == run_result[2]

\* the texts of the entries tagged kind, in the order of the log
TextsOf(log_, kind) ==
    LET es == SelectSeq(log_, LAMBDA e : e[1] = kind)
    IN  [n \in 1..Len(es) |-> es[n][2]]

RECURSIVE Flat(_)
Flat(texts) == IF texts = <<>> THEN <<>> ELSE Head(texts) \o Flat(Tail(texts))

\* a text without its control sequences: without every "ESC[" a letter
\* follows and without that letter
WithoutEscapes(t) ==
    LET opens(n) == t[n] = "ESC[" /\ n < Len(t) /\ t[n + 1] = "m"
        kept == {n \in 1..Len(t) : ~opens(n) /\ ~(n > 1 /\ opens(n - 1))}
        F[n \in 0..Len(t)] ==
            IF n = 0 THEN <<>> ELSE IF n \in kept THEN Append(F[n - 1], t[n]) ELSE F[n - 1]
    IN  F[Len(t)]

\* the log without the last entry of each file, which holds what followed
\* the file's last newline
CompleteEntries ==
    LET last(kind) == {n \in 1..Len(Returned) :
                          /\ Returned[n][1] = kind
                          /\ \A m \in (n + 1)..Len(Returned) : Returned[m][1] # kind}
        F[n \in 0..Len(Returned)] ==
            IF n = 0 THEN <<>>
            ELSE IF n \in last(STDOUT) \cup last(STDERR) THEN F[n - 1]
                 ELSE Append(F[n - 1], Returned[n])
    IN  F[Len(Returned)]

\* the lines the child completed, control sequences removed
CompletedLines == [n \in 1..Len(completed) |-> <<completed[n][1], WithoutEscapes(completed[n][2])>>]

(* C17: the entries run returns are the lines the child wrote,            *)
(* each tagged with its stream and without control sequences, in the      *)
(* order in which the lines were completed.                               *)
C17_InCompletionOrder ==
    Done => CompleteEntries = CompletedLines

---------------------------------------------------------------------------
(* C18: when run returns, the child has terminated, both files have been  *)
(* read to their end and nothing is left in line_parts; the code returned *)
(* is the child's exit status and, for each stream, the entries of the    *)
(* log hold in order every byte the child wrote to it other than the      *)
(* newlines and the control sequences.                                    *)
C18_ReturnsAllAfterExit ==
    Done
        => /\ child.script = <<>> /\ child.status # None
           /\ run_result[1] = child.status
           /\ Returned = lines
           /\ \A kind \in {STDOUT, STDERR} :
                 /\ pipe[kind] = <<>> /\ line_parts[kind] = <<>>
                 /\ Flat(TextsOf(Returned, kind))
                       = Flat([n \in 1..Len(Split(written[kind])) |->
                                  WithoutEscapes(Split(written[kind])[n])])

\* exit status 1, with one line of stdout read in pieces and an
\* unfinished line on stderr
C18_Witness ==
    /\ Done
    /\ run_result[1] = <<"1">>
    /\ written[STDOUT] = <<"m", "m", "m">>
    /\ written[STDERR] = <<"m">>
    /\ Returned = <<<<STDOUT, <<"m", "m", "m">>>>, <<STDERR, <<"m">>>>>>

---------------------------------------------------------------------------
(* C20: apply never stops at a file that fails; when it returns, _apply   *)
(* was called for every file, every file is in exactly one of correct and *)
(* incorrect, each list is in the order of files, a file is in incorrect  *)
(* exactly when _apply did not return OK for it, and its status is then   *)
(* the kind of the failure.                                               *)
Ascending(positions) ==
    \A i, j \in 1..Len(positions) : i < j => positions[i] < positions[j]

Range(positions) == {positions[i] : i \in 1..Len(positions)}

C20_ReportsPerItem ==
    /\ fpc # "raised"
    /\ fpc = "returned"
         => /\ Len(failure) = Len(files)
            /\ Ascending(correct) /\ Ascending(incorrect)
            /\ Range(correct) \cup Range(incorrect) = 1..Len(files)
            /\ Range(correct) \cap Range(incorrect) = {}
            /\ \A i \in 1..Len(files) :
                  /\ i \in Range(incorrect) <=> failure[i] # OK
                  /\ i \in Range(incorrect) => files[i].status = failure[i]

---------------------------------------------------------------------------
(* The output of one stream cut at its newlines *)

\* where the newlines of s are, in order
NewlinesOf(s) ==
    LET F[n \in 0..Len(s)] ==
            IF n = 0 THEN <<>> ELSE IF s[n] = "\n" THEN Append(F[n - 1], n) ELSE F[n - 1]
    IN  F[Len(s)]

\* the texts between the newlines of s: one for each newline, and one for
\* what follows the last newline
LinesOf(s) ==
    LET at == NewlinesOf(s)
        from(n) == IF n = 1 THEN 1 ELSE at[n - 1] + 1
        to(n) == IF n = Len(at) + 1 THEN Len(s) ELSE at[n] - 1
    IN  [n \in 1..(Len(at) + 1) |-> SubSeq(s, from(n), to(n))]

(* C21 as stated: the entries of one stream that run returns are that     *)
(* stream's whole output split at the newlines, one entry for each        *)
(* newline and one last entry for what follows the last newline.          *)
C21_Original ==
    Done => \A kind \in {STDOUT, STDERR} : TextsOf(Returned, kind) = LinesOf(written[kind])

(* C21: however the output was cut into reads and however the two streams *)
(* were interleaved, the entries of one stream that run returns are that  *)
(* stream's whole output split at the newlines, each text without its     *)
(* control sequences: one entry for each newline, in order, and exactly   *)
(* one last entry for what follows the last newline, empty when the       *)
(* output is empty or ends with a newline.                                *)
C21_SplitWithoutEscapes ==
    Done
        => \A kind \in {STDOUT, STDERR} :
              LET texts == TextsOf(Returned, kind)
                  whole == LinesOf(written[kind])
              IN  /\ Len(texts) = Len(NewlinesOf(written[kind])) + 1
                  /\ texts = [n \in 1..Len(whole) |-> WithoutEscapes(whole[n])]
                  /\ (written[kind] = <<>> \/ written[kind][Len(written[kind])] = "\n")
                        => texts[Len(texts)] = <<>>

\* stdout wrote a control sequence in a line and ended with a newline,
\* stderr wrote nothing
C21_Witness ==
    /\ Done
    /\ written[STDOUT] = <<"ESC[", "m", "m", "\n">>
    /\ written[STDERR] = <<>>
    /\ TextsOf(Returned, STDOUT) = <<<<"m">>, <<>>>>
    /\ TextsOf(Returned, STDERR) = <<<<>>>>

---------------------------------------------------------------------------
(* How a call of process for an alias with a workdir ended *)

ProcessFailed == pc = "raised" /\ (BuildFailed \/ HookFailed) /\ Dir # None

ProcessReturned == pc = "save" /\ Dir # None

\* the tag of the alias is the one process resolved and built with
TagSet == data[proc_alias].tag = proc_tag

TagAsBefore == data[proc_alias].tag = before.data[proc_alias].tag

\* the -t parameter of the successful build of this call
BuiltAs ==
    {log[n].t : n \in {m \in Since : /\ log[m].op = "build" /\ log[m].alias = proc_alias
                                      /\ log[m].return_code = 0}}

(* C22 as stated: whenever process(alias) fails, by the build or by the   *)
(* hook, the live manifest is as before the call and no .bak was written; *)
(* a manifest swapped in by a call that has ended goes with the tag of    *)
(* the alias set to the tag it was built with.                            *)
C22_Original ==
    /\ ProcessFailed => Manifest = ManifestBefore /\ Backup = BackupBefore
    /\ ((ProcessFailed \/ ProcessReturned) /\ Succeeded("build")) => TagSet

(* C22: when process(alias) fails by the build, the live manifest is as   *)
(* before the call, no .bak was written and the tag of the alias is as    *)
(* before; when it fails by the hook, which runs after _build returned,   *)
(* the manifest is already the rewritten one and .bak holds the original  *)
(* while the tag of the alias is still as before; when it returns, the    *)
(* manifest is the rewritten one and the tag is the one it was built      *)
(* with.                                                                  *)
C22_AllOrNothingUpToTheHook ==
    /\ (ProcessFailed /\ BuildFailed)
          => Manifest = ManifestBefore /\ Backup = BackupBefore /\ TagAsBefore
    /\ (ProcessFailed /\ HookFailed)
          => /\ Manifest = new_dockerfile /\ Backup = ManifestBefore
             /\ Temporary = None
             /\ TagAsBefore
    /\ ProcessReturned
          => /\ Manifest = new_dockerfile /\ Backup = ManifestBefore
             /\ TagSet
             /\ BuiltAs = {Image(Info, proc_alias) \o <<":">> \o proc_tag}

\* the hook failed after a build that changed the manifest, and the tag
\* process resolved is not the one the alias holds
C22_Witness ==
    /\ ProcessFailed /\ HookFailed
    /\ Manifest # ManifestBefore
    /\ Backup = ManifestBefore
    /\ ~TagSet

---------------------------------------------------------------------------
(* The tag of the updated alias at the end of an update run *)

\* update <alias> <tag> has returned: the tag was set and every alias of
\* the affected sequence was processed
UpdatedWithTag == pc = "returned" /\ args.tag # None

UpdatedTag == data[args.alias].tag

(* C23 as stated: after update(alias, t) and a successful processing of   *)
(* the affected set of alias, the tag of alias is t, in the document and  *)
(* in the store, whether or not alias has a tag_tmpl.                     *)
C23_Original ==
    UpdatedWithTag => UpdatedTag = args.tag /\ store[args.alias].tag = args.tag

(* C23: after update(alias, t) and a successful processing of the         *)
(* affected set of alias, the tag of an alias without a tag_tmpl is t;    *)
(* the tag of an alias with a tag_tmpl is the expansion of its template,  *)
(* which process has put in the place of t.  The store holds the same.    *)
C23_LiteralTagKept ==
    UpdatedWithTag
        => /\ ~Templated(args.alias) => UpdatedTag = args.tag
           /\ Templated(args.alias) => UpdatedTag = Substituted(data[args.alias].tag_tmpl, args.alias)
           /\ store[args.alias].tag = UpdatedTag
           /\ \E n \in 1..Len(log) :
                 log[n] = [op |-> "assign", alias |-> args.alias, tag |-> UpdatedTag]

\* the updated alias has a template and ends with another tag than the
\* one it was updated to
C23_Witness ==
    /\ UpdatedWithTag
    /\ Templated(args.alias)
    /\ UpdatedTag # args.tag
    /\ store[args.alias].tag = UpdatedTag

=============================================================================
